---- MODULE Spec2Model ----
(***************************************************************************)
(* Model of the shotgrid wrapper: the generic Entity proxy (base.py), its  *)
(* load_entity lookup and child accessors, the Movie.upload retry loop     *)
(* (media.py), the memoized Shotgrid.get_lookup (shotgrid.py) and the      *)
(* helper functions (helpers.py).                                          *)
(*                                                                         *)
(* A field map (a Python dict) is a function from key strings to values;   *)
(* a key that is absent, or whose value is None, is a key outside DOMAIN.  *)
(* The id 0 stands for a falsy id.                                        *)
(***************************************************************************)
EXTENDS Integers, Sequences, FiniteSets, TLC

VARIABLES
    data,           \* Entity.data of the proxy under test (a Version)
    snapshot_data,  \* Entity._snapshot_data: <<FALSE>> for None, else <<TRUE, map>>
    chain,          \* kinds of the proxy's ancestors, nearest first (Entity._parent ...)
    remote,         \* the remote service's Version rows, by id
    last,           \* what the last operation on the proxy did (history)
    load,           \* the last load_entity call and its outcome (history)
    up,             \* Movie.upload: position in the retry loop and its counters
    lookup_cache    \* the memo of Shotgrid.get_lookup: results by call arguments

vars == <<data, snapshot_data, chain, remote, last, load, up, lookup_cache>>

\* ------------------------------------------------------------------ bounds
\* ids the remote service can assign
MaxId == 2

\* ------------------------------------------------------------ field maps
EmptyMap == << >>

Has(d, k) == k \in DOMAIN d

\* dict.update(e) / {**d, **e}
Merge(d, e) ==
    [k \in (DOMAIN d) \cup (DOMAIN e) |-> IF k \in DOMAIN e THEN e[k] ELSE d[k]]

Restrict(d, S) == [k \in (DOMAIN d) \cap S |-> d[k]]

\* Python truthiness of the value held under key k (values are typed by key)
FalsyAt(d, k) ==
    \/ ~Has(d, k)
    \/ k = "id" /\ d[k] = 0
    \/ k \in {"code", "type", "content", "name"} /\ d[k] = ""
    \/ k = "tags" /\ d[k] = << >>

\* attribute read on the dict wrapper: a missing key reads as a falsy value
DataGet(d, k) == IF Has(d, k) THEN d[k] ELSE 0

\* ------------------------------------------------------------- constants
auto_tag == [type |-> "Tag", id |-> 341]

OtherTag == [type |-> "Tag", id |-> 7]

entity_type == "Version"

\* Version.fields, restricted to the keys the model carries
VersionFields == {"id", "code", "tags"}

ProjectData == [type |-> "Project", id |-> 1]

NoSnapshot == <<FALSE>>

\* faulty variant: the snapshot is the data object itself
SnapshotShared(s, new) == IF s = NoSnapshot THEN s ELSE <<TRUE, new>>

\* base.py:558  copy.copy(self.data): the snapshot is an object of its own,
\* what self.data becomes by a change made in place does not reach it
SnapshotAfterInPlace(s, new) == s

\* ------------------------------------------------------------- helpers.py
\* remove_keys(data, keys, mode, remove_empty) with update_in_place=False
remove_keys(d, keys, mode, remove_empty) ==
    IF d = EmptyMap THEN EmptyMap
    ELSE LET kept == IF mode = "remove"
                     THEN Restrict(d, (DOMAIN d) \ keys)
                     ELSE Restrict(d, keys)
         IN  IF remove_empty
             THEN Restrict(kept, {k \in DOMAIN kept : ~FalsyAt(kept, k)})
             ELSE kept

\* faulty variant: the work is always done on the caller's own dict
remove_keys_caller_shared(d, keys, mode, remove_empty, update_in_place) ==
    remove_keys(d, keys, mode, remove_empty)

\* the caller's dict after remove_keys returns: helpers.py:154 works on the
\* caller's own dict only under update_in_place
remove_keys_caller(d, keys, mode, remove_empty, update_in_place) ==
    IF update_in_place
    THEN remove_keys(d, keys, mode, remove_empty)
    ELSE d

\* helpers.py:144-148  the mode is looked at only once the dict is known to
\* hold something
remove_keys_raises(d, mode) == d # EmptyMap /\ mode \notin {"keep", "remove"}

\* helpers.py:145, 151, 154  whether the dict returned is the caller's own
\* object: an empty input is answered with a new {}
remove_keys_same_object(d, update_in_place) == d # EmptyMap /\ update_in_place

\* helpers.py:124-174  one call: what it raises or returns, whether the dict
\* returned is the caller's own object, and the caller's dict afterwards
remove_keys_call(d, keys, mode, remove_empty, update_in_place) ==
    IF remove_keys_raises(d, mode)
    THEN [exc |-> "ValueError", value |-> EmptyMap, same |-> FALSE, caller |-> d]
    ELSE [exc |-> "none",
          value |-> remove_keys(d, keys, mode, remove_empty),
          same |-> remove_keys_same_object(d, update_in_place),
          caller |-> remove_keys_caller(d, keys, mode, remove_empty, update_in_place)]

\* faulty variant: only the keys both dicts hold are compared
dict_diff_changed_only(original, updated) ==
    Restrict(updated, {k \in DOMAIN updated : Has(original, k) /\ original[k] # updated[k]})

\* helpers.py:102-121  dict_diff: a new dict filled from updated.items()
dict_diff(original, updated) ==
    Restrict(updated, {k \in DOMAIN updated : ~Has(original, k) \/ original[k] # updated[k]})

\* one call of dict_diff: the dict returned, and the two arguments afterwards
\* (helpers.py:113-119 writes to the new dict only)
dict_diff_call(original, updated) ==
    [exc |-> "none", value |-> dict_diff(original, updated),
     original |-> original, updated |-> updated]

\* ------------------------------------------------- helpers.py: strings
\* A string the helpers take apart is a sequence of one-character strings.
Digits == <<"0", "1", "2", "3", "4", "5", "6", "7", "8", "9">>

\* \d
IsDigit(c) == \E i \in DOMAIN Digits : Digits[i] = c

DigitVal(c) == (CHOOSE i \in DOMAIN Digits : Digits[i] = c) - 1

\* int(digits)
RECURSIVE int(_)
int(ds) ==
    IF ds = << >> THEN 0
    ELSE 10 * int(SubSeq(ds, 1, Len(ds) - 1)) + DigitVal(ds[Len(ds)])

\* the last index of the run of digits that starts at index i
DigitRunEnd(s, i) ==
    CHOOSE j \in i..Len(s) :
        /\ \A k \in i..j : IsDigit(s[k])
        /\ j = Len(s) \/ ~IsDigit(s[j + 1])

\* helpers.py:17-21  re.search(r'v(\d+)', s): group 1 of the leftmost match,
\* as a one-element sequence; << >> when nothing matches (None)
re_search(s) ==
    LET starts == {i \in 1..(Len(s) - 1) : s[i] = "v" /\ IsDigit(s[i + 1])}
    IN  IF starts = {} THEN << >>
        ELSE LET i == CHOOSE a \in starts : \A b \in starts : a <= b
             IN  <<SubSeq(s, i + 1, DigitRunEnd(s, i + 1))>>

\* what a helper call comes to: a returned value, or an exception
Returns(v) == [exc |-> "none", value |-> v]

Raises(exc) == [exc |-> exc, value |-> << >>]

\* helpers.py:19-26  the loop over the strings left, with the highest version
\* so far (<< >> for None); max(None, n) at line 26 is a comparison of an int
\* with None, which Python 3 refuses with TypeError
RECURSIVE HighestVersionLoop(_, _)
HighestVersionLoop(version_strings, highest_version) ==
    IF version_strings = << >> THEN Returns(highest_version)
    ELSE LET match == re_search(Head(version_strings))
         IN  IF match = << >>
             THEN HighestVersionLoop(Tail(version_strings), highest_version)
             ELSE LET version_num == int(match[1])
                  IN  IF highest_version = << >>
                      THEN Raises("TypeError")
                      ELSE HighestVersionLoop(Tail(version_strings),
                               IF highest_version[1] >= version_num
                               THEN highest_version ELSE <<version_num>>)

\* helpers.py:1-28
get_highest_version(version_strings) == HighestVersionLoop(version_strings, << >>)

\* ------------------------------------- helpers.py: list_of_dicts_to_dict
\* str.split(sep) for a one-character separator: every part, empty ones too
RECURSIVE split(_, _)
split(s, sep) ==
    LET at == {i \in DOMAIN s : s[i] = sep}
    IN  IF at = {} THEN <<s>>
        ELSE LET i == CHOOSE a \in at : \A b \in at : a <= b
             IN  <<SubSeq(s, 1, i - 1)>> \o split(SubSeq(s, i + 1, Len(s)), sep)

IsSpace(c) == c \in {" ", "\t", "\n"}

RECURSIVE lstrip(_)
lstrip(s) == IF s # << >> /\ IsSpace(Head(s)) THEN lstrip(Tail(s)) ELSE s

RECURSIVE rstrip(_)
rstrip(s) ==
    IF s # << >> /\ IsSpace(s[Len(s)]) THEN rstrip(SubSeq(s, 1, Len(s) - 1)) ELSE s

\* str.strip()
strip(s) == rstrip(lstrip(s))

\* ord(c) of the characters the key values are made of
ord == ("\t" :> 9) @@ ("\n" :> 10) @@ (" " :> 32) @@ ("," :> 44) @@ ("a" :> 97) @@ ("b" :> 98)

\* s < t on strings
RECURSIVE StrLess(_, _)
StrLess(s, t) ==
    IF t = << >> THEN FALSE
    ELSE IF s = << >> THEN TRUE
    ELSE IF Head(s) = Head(t) THEN StrLess(Tail(s), Tail(t))
    ELSE ord[Head(s)] < ord[Head(t)]

\* helpers.py:97  sorted(list(duplicates), key=str), the keys being strings
RECURSIVE sorted(_)
sorted(S) ==
    IF S = {} THEN << >>
    ELSE LET m == CHOOSE x \in S : \A y \in S \ {x} : StrLess(x, y)
         IN  <<m>> \o sorted(S \ {m})

\* an exception that carries a value in its message
RaisesWith(exc, v) == [exc |-> exc, value |-> v]

\* faulty variant: a key met again overwrites silently
KeysLoopOverwrites(keys_to_process, item, acc) ==
    [result |-> Merge(acc.result,
                      [k \in {keys_to_process[i] : i \in DOMAIN keys_to_process} \ {<< >>}
                          |-> item]),
     duplicates |-> {}]

\* helpers.py:83-92  the loop over the keys of one item: acc holds result
\* and duplicates
RECURSIVE KeysLoop(_, _, _)
KeysLoop(keys_to_process, item, acc) ==
    IF keys_to_process = << >> THEN acc
    ELSE LET k_val == Head(keys_to_process)
         IN  IF k_val = << >>
             THEN KeysLoop(Tail(keys_to_process), item, acc)
             ELSE KeysLoop(Tail(keys_to_process), item,
                      [result |-> Merge(acc.result, [k \in {k_val} |-> item]),
                       duplicates |-> IF k_val \in DOMAIN acc.result
                                      THEN acc.duplicates \cup {k_val}
                                      ELSE acc.duplicates])

\* helpers.py:71-81  the keys one value stands for; separator is << >> for
\* None and a one-element sequence for a one-character separator
KeysToProcess(value_for_key, separator) ==
    IF separator # << >>
    THEN LET parts == split(value_for_key, separator[1])
         IN  [i \in DOMAIN parts |-> strip(parts[i])]
    ELSE <<value_for_key>>

\* helpers.py:64-92  the loop over the items
RECURSIVE ItemsLoop(_, _, _, _)
ItemsLoop(items, key, separator, acc) ==
    IF items = << >> THEN acc
    ELSE LET item == Head(items)
         IN  IF ~Has(item, key) \/ item[key] = << >>
             THEN ItemsLoop(Tail(items), key, separator, acc)
             ELSE ItemsLoop(Tail(items), key, separator,
                      KeysLoop(KeysToProcess(item[key], separator), item, acc))

\* helpers.py:31-99
list_of_dicts_to_dict(items, key, separator) ==
    IF items = << >> THEN Returns(EmptyMap)
    ELSE LET acc == ItemsLoop(items, key, separator,
                              [result |-> EmptyMap, duplicates |-> {}])
         IN  IF acc.duplicates # {}
             THEN RaisesWith("ValueError", sorted(acc.duplicates))
             ELSE Returns(acc.result)

\* ----------------------------------------------------------- parent chain
\* Entity.id()
id(d) == DataGet(d, "id")

\* Entity.type()
type == entity_type

\* Entity.get_project(): the nearest Project at or above the proxy, as a
\* sequence holding its data; << >> when the walk ends without one (None)
RECURSIVE ProjectAbove(_)
ProjectAbove(c) ==
    IF c = << >> THEN << >>
    ELSE IF Head(c) = "Project" THEN <<ProjectData>>
    ELSE ProjectAbove(Tail(c))

get_project == IF type = "Project" THEN <<data>> ELSE ProjectAbove(chain)

\* Entity.api(): the Shotgrid client at the root of the chain
RECURSIVE ApiAbove(_)
ApiAbove(c) ==
    IF c = << >> THEN FALSE
    ELSE IF Head(c) = "Shotgrid" THEN TRUE
    ELSE ApiAbove(Tail(c))

api == ApiAbove(chain)


\* ------------------------------------------------------ the remote service
\* one remote call, as the proxy issues it
Call(fn, ty, i, d, m, f) ==
    [fn |-> fn, type |-> ty, id |-> i, data |-> d, mode |-> m, fields |-> f]

\* create(entity_type, field_map) -> field map, the assigned id included
FreeIds == (1..MaxId) \ DOMAIN remote

NewId == CHOOSE i \in FreeIds : \A j \in FreeIds : i <= j

CreateResult(sent) == Merge(sent, [type |-> entity_type, id |-> NewId])

\* update(entity_type, id, field_map, modes) -> the fields sent, with type and id
UpdateResult(i, sent) == Merge(sent, [type |-> entity_type, id |-> i])

\* find(entity_type, [["id", "is", i]], fields) -> the rows, each cut to fields
FindById(i, fields) ==
    IF i \in DOMAIN remote
    THEN <<Restrict(remote[i], fields \cup {"type", "id"})>>
    ELSE << >>

\* --------------------------------------------------------------- history
Idle == [op |-> "none", args |-> EmptyMap, outcome |-> "none", calls |-> << >>,
         ret |-> EmptyMap, lost |-> {}]

\* the keys of the local data whose value the operation dropped or replaced
Lost(old, new) == {k \in DOMAIN old : k \notin DOMAIN new \/ new[k] # old[k]}

Did(op, args, outcome, calls, ret, new) ==
    last' = [op |-> op, args |-> args, outcome |-> outcome, calls |-> calls,
             ret |-> ret, lost |-> Lost(data, new)]

\* ------------------------------------------------------------ Entity.save
\* faulty variant: the guard against a second create is missing
SaveRejectsNever(d) == FALSE

\* base.py:118  if self.id(): raise ValueError
SaveRejects(d) == ~FalsyAt(d, "id")

\* faulty variant: only the id is stripped from the field map
SaveDataKeepsType(d, project) ==
    Merge(Merge(remove_keys(d, {"id"}, "remove", FALSE), [project |-> project]),
          [tags |-> <<auto_tag>>])

\* base.py:121-125  the field map handed to the remote create

SaveData(d, project) ==
    LET stripped == remove_keys(d, {"id", "type"}, "remove", FALSE)
        withProject == Merge(stripped, [project |-> project])
    IN  IF auto_tag.id # 0
        THEN Merge(withProject, [tags |-> <<auto_tag>>])
        ELSE withProject

\* faulty variant: the keys are stripped from self.data itself
SaveLocalStripped(d) == remove_keys_caller(d, {"id", "type"}, "remove", FALSE, TRUE)

\* base.py:121  self.data as remove_keys leaves it (update_in_place is not passed)

SaveLocal(d) == remove_keys_caller(d, {"id", "type"}, "remove", FALSE, FALSE)

\* base.py:127  self._set_data(result)
SaveStore(d, result) == result

Save ==
    IF SaveRejects(data)
    THEN /\ Did("save", EmptyMap, "ValueError", << >>, EmptyMap, data)
         /\ UNCHANGED <<data, snapshot_data, chain, remote, load, up, lookup_cache>>
    ELSE IF get_project = << >>
    THEN /\ data' = SaveLocal(data)
         /\ Did("save", EmptyMap, "AttributeError", << >>, EmptyMap, SaveLocal(data))
         /\ UNCHANGED <<snapshot_data, chain, remote, load, up, lookup_cache>>
    ELSE LET sent == SaveData(data, get_project[1])
             call == Call("create", entity_type, 0, sent, EmptyMap, {})
         IN  \E raises \in BOOLEAN :
                IF raises \/ FreeIds = {}
                THEN /\ data' = SaveLocal(data)
                     /\ Did("save", EmptyMap, "RemoteError", <<call>>, EmptyMap, SaveLocal(data))
                     /\ UNCHANGED <<snapshot_data, chain, remote, load, up, lookup_cache>>
                ELSE LET result == CreateResult(sent)
                     IN  /\ remote' = Merge(remote, [i \in {NewId} |-> result])
                         /\ data' = SaveStore(SaveLocal(data), result)
                         /\ Did("save", EmptyMap, "ok", <<call>>, result, result)
                         /\ UNCHANGED <<snapshot_data, chain, load, up, lookup_cache>>

\* ---------------------------------------------------------- Entity.update
\* the keyword arguments a caller may pass
UpdateFields ==
    { EmptyMap,
      [code |-> "b"],
      [id |-> 1],
      [tags |-> <<OtherTag>>],
      [id |-> 1, type |-> "Shot", code |-> "b", tags |-> <<OtherTag>>] }

UpdateModes == { EmptyMap, [tags |-> "add"], [versions |-> "add"] }

\* base.py:374-375, 382  the field map handed to the remote update
UpdateData(fields) ==
    LET tagged == IF auto_tag.id # 0
                  THEN Merge(fields, [tags |-> <<auto_tag>>])
                  ELSE fields
    IN  remove_keys(tagged, {"id", "type"}, "remove", FALSE)

\* faulty variant: a caller's update modes are passed on as given
UpdateModeKeepsCallers(update_mode) ==
    IF update_mode = EmptyMap THEN [tags |-> "set"] ELSE update_mode

\* base.py:376-379  multi_entity_update_modes

UpdateMode(update_mode) ==
    IF auto_tag.id # 0
    THEN IF update_mode = EmptyMap
         THEN [tags |-> "set"]
         ELSE Merge(update_mode, [tags |-> "set"])
    ELSE update_mode

\* base.py:386  self.data.update(result)
UpdateStore(d, result) == Merge(d, result)

Update ==
    \E fields \in UpdateFields, update_mode \in UpdateModes :
        LET args == [fields |-> fields, update_mode |-> update_mode]
        IN  IF fields = EmptyMap
            THEN /\ Did("update", args, "noop", << >>, EmptyMap, data)
                 /\ UNCHANGED <<data, snapshot_data, chain, remote, load, up, lookup_cache>>
            ELSE LET sent == UpdateData(fields)
                     mode == UpdateMode(update_mode)
                     call == Call("update", type, id(data), sent, mode, {})
                 IN  \E raises \in BOOLEAN :
                        IF raises \/ id(data) \notin DOMAIN remote
                        THEN /\ Did("update", args, "RemoteError", <<call>>, EmptyMap, data)
                             /\ UNCHANGED <<data, snapshot_data, chain, remote, load, up, lookup_cache>>
                        ELSE LET result == UpdateResult(id(data), sent)
                                 new == UpdateStore(data, result)
                             IN  /\ remote' = [remote EXCEPT ![id(data)] = Merge(@, result)]
                                 /\ data' = new
                                 /\ snapshot_data' = SnapshotAfterInPlace(snapshot_data, new)
                                 /\ Did("update", args, "ok", <<call>>, result, new)
                                 /\ UNCHANGED <<chain, load, up, lookup_cache>>

\* --------------------------------------------------------- Entity.refetch
\* the fields argument: {} for None (the class's fields are asked for)
RefetchFields == { {}, {"code"} }

\* faulty variant: the row is merged into the local data
RefetchStoreMerges(d, row) == Merge(d, row)

\* base.py:354  self.data = dotdictify(results[0])

RefetchStore(d, row) == row

Refetch ==
    \E fields \in RefetchFields :
        LET asked == IF fields = {} THEN VersionFields ELSE fields
            call == Call("find", type, id(data), EmptyMap, EmptyMap, asked)
            args == [fields |-> fields]
        IN  \E raises \in BOOLEAN :
               IF raises
               THEN /\ Did("refetch", args, "RemoteError", <<call>>, EmptyMap, data)
                    /\ UNCHANGED <<data, snapshot_data, chain, remote, load, up, lookup_cache>>
               ELSE LET results == FindById(id(data), asked)
                    IN  IF results = << >>
                        THEN /\ Did("refetch", args, "IndexError", <<call>>, EmptyMap, data)
                             /\ UNCHANGED <<data, snapshot_data, chain, remote, load, up, lookup_cache>>
                        ELSE LET new == RefetchStore(data, results[1])
                             IN  /\ data' = new
                                 /\ Did("refetch", args, "ok", <<call>>, results[1], new)
                                 /\ UNCHANGED <<snapshot_data, chain, remote, load, up, lookup_cache>>

\* -------------------------------------------------------- Entity.snapshot
Snapshot ==
    /\ snapshot_data' = <<TRUE, data>>
    /\ Did("snapshot", EmptyMap, "ok", << >>, EmptyMap, data)
    /\ UNCHANGED <<data, chain, remote, load, up, lookup_cache>>

\* ------------------------------------------- Entity.diff / has_changes
\* faulty variant: the snapshot is not consulted
diff_without_snapshot == data

\* base.py:561-581  with no snapshot the data itself is returned
diff ==
    IF snapshot_data = NoSnapshot THEN data
    ELSE dict_diff(snapshot_data[2], data)

\* base.py:583-593  len(self.diff()) > 0
has_changes == Cardinality(DOMAIN diff) > 0

\* base.py:561-581  one call of diff(): neither branch raises; with no
\* snapshot line 573 returns the data
diff_call == Returns(diff)

\* base.py:583-593  one call of has_changes(): what diff() returns, measured
has_changes_call == [exc |-> diff_call.exc, value |-> has_changes]

\* ------------------------------------------- local, unsaved field changes
LocalValues == [code |-> {"a", "b"}]

\* entity.code = v
SetField ==
    \E k \in DOMAIN LocalValues : \E v \in LocalValues[k] :
        LET new == Merge(data, [x \in {k} |-> v])
        IN  /\ data' = new
            /\ snapshot_data' = SnapshotAfterInPlace(snapshot_data, new)
            /\ Did("set", [key |-> k], "ok", << >>, EmptyMap, new)
            /\ UNCHANGED <<chain, remote, load, up, lookup_cache>>

\* another client changes a row on the remote service
RemoteEdit ==
    \E i \in DOMAIN remote : \E c \in {"a", "b"} :
        /\ remote' = [remote EXCEPT ![i] = Merge(@, [code |-> c])]
        /\ Did("remote_edit", EmptyMap, "ok", << >>, EmptyMap, data)
        /\ UNCHANGED <<data, snapshot_data, chain, load, up, lookup_cache>>

\* ------------------------------------------------------------------ Spec
Chains == { <<"Shot", "Project", "Shotgrid">>, <<"Shotgrid">> }

InitRemote == { EmptyMap,
                [i \in {1} |-> [type |-> entity_type, id |-> 1, code |-> "a", tags |-> <<OtherTag>>]] }

InitData(rows) ==
    { [type |-> entity_type, code |-> "a", tags |-> <<OtherTag>>],
      [id |-> 0, code |-> "b"],
      [type |-> entity_type, id |-> MaxId] }
    \cup { rows[i] : i \in DOMAIN rows }

NoLoad == [op |-> "none"]

NoUpload == [pc |-> "none"]

Init ==
    /\ remote \in InitRemote
    /\ data \in InitData(remote)
    /\ snapshot_data = NoSnapshot
    /\ chain \in Chains
    /\ last = Idle
    /\ load = NoLoad
    /\ up = NoUpload
    /\ lookup_cache = EmptyMap

Next == Save \/ Update \/ Refetch \/ Snapshot \/ SetField \/ RemoteEdit

Spec == Init /\ [][Next]_vars

\* ====================================================== Entity.load_entity
\* rows another client may add to the remote service between lookups
MaxRows == 2

\* base.py:434-447  EntityType
EntityType ==
    {"Project", "Asset", "Sequence", "Shot", "Task", "Version", "PublishedFile",
     "Playlist", "CustomEntity07", "CustomEntity06", "Group", "Person"}

\* base.py:469-482  the natural key field of each supported type
codes == [t \in EntityType |->
            IF t = "Task" THEN "content" ELSE IF t = "Person" THEN "name" ELSE "code"]

\* base.py:507-521  the accessor looked up on the caller for each type
retrieval_methods ==
    [Project |-> "get_projects", Person |-> "get_persons", Group |-> "get_groups",
     Asset |-> "get_assets", Sequence |-> "get_sequences", Shot |-> "get_shots",
     Task |-> "get_tasks", Version |-> "get_versions", Playlist |-> "get_playlists",
     Delivery |-> "get_deliveries", PublishedFile |-> "get_published_files",
     CustomEntity07 |-> "get_ypackage", CustomEntity06 |-> "get_ymedia"]

\* shotgrid.py:61-63  the entity types that have a wrapper class
entity_type_class_map ==
    {"Asset", "Person", "Group", "Playlist", "Project", "Sequence", "Shot", "Step",
     "Task", "Version", "PublishedFile", "CustomEntity06", "CustomEntity07", "Delivery"}

\* the accessors a Project proxy has (project.py, and base.py for tasks and versions)
ProjectAccessors ==
    {"get_assets", "get_deliveries", "get_persons", "get_groups", "get_playlists",
     "get_ymedia", "get_ypackage", "get_sequences", "get_shots", "get_tasks",
     "get_versions"}

\* the entity type an accessor queries, and the field it matches its argument on
AccessorType(m) ==
    CHOOSE t \in DOMAIN retrieval_methods : retrieval_methods[t] = m

AccessorKey(m) ==
    IF m = "get_tasks" THEN "content"
    ELSE IF m = "get_persons" THEN "name"
    ELSE IF m = "get_deliveries" THEN "title"
    ELSE "code"

\* a proxy object: wrapper class, parent and field map
Proxy(cls, parent, d) == [cls |-> cls, parent |-> parent, data |-> d]

\* an accessor called with one positional argument (<< >> for None, which adds
\* no clause): the rows of its type whose key field is the argument, each
\* wrapped in a proxy parented to the caller
CallAccessor(m, arg) ==
    LET rows == SelectSeq(remote, LAMBDA r :
                    /\ r["type"] = AccessorType(m)
                    /\ arg # << >> => (Has(r, AccessorKey(m)) /\ r[AccessorKey(m)] = arg[1]))
    IN  [n \in 1..Len(rows) |-> Proxy(AccessorType(m), "caller", rows[n])]

\* what a call returned or raised
Outcome(outcome, kind, items, calls, found) ==
    [outcome |-> outcome, kind |-> kind, items |-> items, calls |-> calls,
     found |-> found]

Raised(exc, calls, found) == Outcome(exc, "none", << >>, calls, found)

ReturnedNone(calls, found) == Outcome("return", "None", << >>, calls, found)

\* shotgrid.py:236-253  Shotgrid.create_entity
create_entity(etype, parent, d, calls, found) ==
    IF etype \notin entity_type_class_map
    THEN Raised("ValueError", calls, found)
    ELSE Outcome("return", "entity", <<Proxy(etype, parent, d)>>, calls, found)

\* base.py:484  entity_data.get("type"); "None" when the key is missing
LoadType(ed) == IF Has(ed, "type") THEN ed["type"] ELSE "None"

\* base.py:485  entity_data.get("id") is truthy
LoadHasId(ed) == Has(ed, "id") /\ ed["id"] # 0

\* base.py:486  the lookup value, as a sequence: << >> for None
LoadCode(ed) ==
    IF Has(ed, "code") /\ ed["code"] # ""
    THEN <<ed["code"]>>
    ELSE IF Has(ed, codes[LoadType(ed)]) THEN <<ed[codes[LoadType(ed)]]>> ELSE << >>

\* base.py:497-500  the copy of entity_data, keyed by the natural key field
LoadData(ed, code) ==
    LET noCode == Restrict(ed, (DOMAIN ed) \ {"code"})
    IN  IF code = << >>
        THEN noCode
        ELSE Merge(noCode, [k \in {codes[LoadType(ed)]} |-> code[1]])

\* faulty variant: UNIQUE takes the first record without counting
RetrievalUniqueUnchecked(entity, retrieval, calls) ==
    IF retrieval = "all"
    THEN Outcome("return", "list", entity, calls, Len(entity))
    ELSE Outcome("return", "entity", <<entity[1]>>, calls, Len(entity))

\* base.py:530-538  the retrieval policy over a non-empty result
Retrieval(entity, retrieval, calls) ==
    IF retrieval = "first"
    THEN Outcome("return", "entity", <<entity[1]>>, calls, Len(entity))
    ELSE IF retrieval = "all"
    THEN Outcome("return", "list", entity, calls, Len(entity))
    ELSE IF Len(entity) > 1
    THEN Raised("ValueError", calls, Len(entity))
    ELSE Outcome("return", "entity", <<entity[1]>>, calls, Len(entity))

\* faulty variant: IGNORE and RAISE are exchanged
MissingSwapped(etype, d, missing, calls, found) ==
    IF missing = "create"
    THEN create_entity(etype, "caller", d, calls, found)
    ELSE IF missing = "ignore"
    THEN Raised("ValueError", calls, found)
    ELSE ReturnedNone(calls, found)

\* base.py:540-547  the missing policy
Missing(etype, d, missing, calls, found) ==
    IF missing = "create"
    THEN create_entity(etype, "caller", d, calls, found)
    ELSE IF missing = "raise"
    THEN Raised("ValueError", calls, found)
    ELSE ReturnedNone(calls, found)

\* faulty variant: the code is tested against None, not for truth
LoadNothingToFindNoneOnly(ed) ==
    ~LoadHasId(ed) /\ LoadCode(ed) = << >>

\* base.py:493  if not entity_id and not entity_code: return None
LoadNothingToFind(ed) ==
    ~LoadHasId(ed) /\ (LoadCode(ed) = << >> \/ LoadCode(ed)[1] = "")

\* base.py:449-547  Entity.load_entity, called on a Project proxy
load_entity(ed, retrieval, missing) ==
    IF ed = EmptyMap THEN ReturnedNone(<< >>, -1)
    ELSE IF ~(Has(ed, "code") /\ ed["code"] # "") /\ LoadType(ed) \notin DOMAIN codes
    THEN Raised("KeyError", << >>, -1)
    ELSE IF LoadType(ed) \notin DOMAIN codes
    THEN Raised("ValueError", << >>, -1)
    ELSE IF LoadNothingToFind(ed)
    THEN ReturnedNone(<< >>, -1)
    ELSE LET etype == LoadType(ed)
             entity_code == LoadCode(ed)
             d == LoadData(ed, entity_code)
         IN  IF LoadHasId(ed)
             THEN create_entity(etype, "caller", d, << >>, -1)
             ELSE LET m == retrieval_methods[etype]
                      has == m \in ProjectAccessors
                      entity == IF has THEN CallAccessor(m, entity_code) ELSE << >>
                      calls == IF has THEN <<"find">> ELSE << >>
                      found == IF has THEN Len(entity) ELSE -1
                  IN  IF entity # << >>
                      THEN Retrieval(entity, retrieval, calls)
                      ELSE Missing(etype, d, missing, calls, found)

\* the dicts a caller may pass
EntityDatas ==
    { Merge(Merge(t, i), Merge(c, n)) :
        t \in {EmptyMap, [type |-> "Shot"], [type |-> "Task"], [type |-> "Project"],
               [type |-> "Delivery"]},
        i \in {EmptyMap, [id |-> 0], [id |-> 5]},
        c \in {EmptyMap, [code |-> ""], [code |-> "a"]},
        n \in {EmptyMap, [content |-> "b"]} }

RetrievalMethod == {"first", "all", "unique"}

MissingStrategy == {"create", "ignore", "raise"}

LoadEntity ==
    /\ load = NoLoad
    /\ \E ed \in EntityDatas, retrieval \in RetrievalMethod, missing \in MissingStrategy :
          load' = [op |-> "load_entity", entity_data |-> ed, retrieval |-> retrieval,
                   missing |-> missing, out |-> load_entity(ed, retrieval, missing)]
    /\ UNCHANGED <<data, snapshot_data, chain, remote, last, up, lookup_cache>>

\* the caller takes the result (or the exception) and goes on
LoadReturn ==
    /\ load # NoLoad
    /\ load' = NoLoad
    /\ UNCHANGED <<data, snapshot_data, chain, remote, last, up, lookup_cache>>

\* another client creates a Shot or a Task on the remote service
AddRow ==
    /\ load = NoLoad
    /\ Len(remote) < MaxRows
    /\ \E t \in {"Shot", "Task"}, c \in {"a", "b"} :
          remote' = Append(remote,
                       Merge([type |-> t, id |-> Len(remote) + 1],
                             [k \in {codes[t]} |-> c]))
    /\ UNCHANGED <<data, snapshot_data, chain, last, load, up, lookup_cache>>

InitLoad ==
    /\ remote = << >>
    /\ data = ProjectData
    /\ snapshot_data = NoSnapshot
    /\ chain = <<"Shotgrid">>
    /\ last = Idle
    /\ load = NoLoad
    /\ up = NoUpload
    /\ lookup_cache = EmptyMap

NextLoad == LoadEntity \/ LoadReturn \/ AddRow

SpecLoad == InitLoad /\ [][NextLoad]_vars

\* ============================================================ Movie.upload
\* media.py:94  for i in range(10)
RetryCount == 10

\* the upload is not running: no call is in progress
UploadIdle(attached) ==
    [pc |-> "idle", fileOk |-> FALSE, attached |-> attached, checks |-> 0, i |-> 0,
     attempts |-> 0, errors |-> 0, allRaised |-> TRUE, ret |-> FALSE, exc |-> "none"]

\* faulty variant: the field is never looked at
check_attachment_skipped(u) == FALSE

\* media.py:121-135  check_attachment_exists('sg_uploaded_movie'): one find_one
\* on the parent, true when the field holds a file
check_attachment_exists(u) == u.attached

\* media.py:83-92  the checks before the loop
UploadCall ==
    /\ up.pc = "idle"
    /\ \E fileOk \in BOOLEAN :
          IF ~fileOk
          THEN up' = [up EXCEPT !.pc = "done", !.fileOk = FALSE, !.ret = FALSE]
          ELSE IF check_attachment_exists(up)
          THEN up' = [up EXCEPT !.pc = "done", !.fileOk = TRUE, !.checks = 1,
                                 !.ret = FALSE]
          ELSE up' = [up EXCEPT !.pc = "loop", !.fileOk = TRUE, !.checks = 1]
    /\ UNCHANGED <<data, snapshot_data, chain, remote, last, load, lookup_cache>>

\* media.py:94, 111  the next round of the loop, or return False after the last
NextRound(u) ==
    IF u.i + 1 < RetryCount
    THEN [u EXCEPT !.i = u.i + 1]
    ELSE [u EXCEPT !.i = u.i + 1, !.pc = "done", !.ret = FALSE]

\* faulty variant: a truthy result does not end the loop
AfterResultGoesOn(u, result) ==
    IF result
    THEN NextRound([u EXCEPT !.attached = TRUE, !.allRaised = FALSE])
    ELSE NextRound([u EXCEPT !.allRaised = FALSE])

\* media.py:103-105  the upload returned: True ends the call
AfterResult(u, result) ==
    IF result
    THEN [u EXCEPT !.pc = "done", !.ret = TRUE, !.attached = TRUE,
                   !.allRaised = FALSE]
    ELSE NextRound([u EXCEPT !.allRaised = FALSE])

\* faulty variant: the first vendor error ends the call
AfterErrorGivesUp(u) ==
    [u EXCEPT !.errors = u.errors + 1, !.pc = "done", !.ret = FALSE]

\* media.py:106-109  the vendor error is logged and the loop goes on
AfterError(u) == NextRound([u EXCEPT !.errors = u.errors + 1])

\* media.py:95-109  one round: the remote upload raises the vendor error,
\* or returns a falsy or a truthy result
UploadAttempt ==
    /\ up.pc = "loop"
    /\ up.i < RetryCount
    /\ \E result \in {"ShotgunError", "falsy", "truthy"} :
          LET tried == [up EXCEPT !.attempts = up.attempts + 1]
          IN  up' = IF result = "ShotgunError"
                    THEN AfterError(tried)
                    ELSE AfterResult(tried, result = "truthy")
    /\ UNCHANGED <<data, snapshot_data, chain, remote, last, load, lookup_cache>>

\* the caller takes the result; the attachment stays as the call left it
UploadReturn ==
    /\ up.pc = "done"
    /\ up' = UploadIdle(up.attached)
    /\ UNCHANGED <<data, snapshot_data, chain, remote, last, load, lookup_cache>>

InitUpload ==
    /\ \E attached \in BOOLEAN : up = UploadIdle(attached)
    /\ data = EmptyMap
    /\ snapshot_data = NoSnapshot
    /\ chain = <<"Version", "Shotgrid">>
    /\ remote = << >>
    /\ last = Idle
    /\ load = NoLoad
    /\ lookup_cache = EmptyMap

NextUpload == UploadCall \/ UploadAttempt \/ UploadReturn

SpecUpload == InitUpload /\ [][NextUpload]_vars

\* ============================================================== helpers.py
\* The helper functions, each applied once to an input drawn at the start.
\* longest version string tried
MaxCodeLen == 3

\* all strings over an alphabet, up to a length
StringsOver(chars, n) == UNION { [1..k -> chars] : k \in 0..n }

\* 'v', two digits, and with them every string that holds no version
VersionStrings == StringsOver({"v", "1", "2"}, MaxCodeLen)

\* the example of the docstring, helpers.py:9, cut to its version suffixes
VersionExample ==
    << <<"S", "_", "v", "0", "0", "6">>,
       <<"S", "_", "v", "0", "0", "7">>,
       <<"S", "_", "v", "0", "0", "3">> >>

\* lists of no, one and two strings, and the example
VersionStringLists ==
    { << >> }
    \cup { <<a>> : a \in VersionStrings }
    \cup { <<a, b>> : a \in VersionStrings, b \in VersionStrings }
    \cup { VersionExample }

\* a call about to be made, and the call once it has come back
Pending(fn, args) == [op |-> "call", fn |-> fn, args |-> args]

Done(fn, args, out) == [op |-> "done", fn |-> fn, args |-> args, out |-> out]

\* longest key value tried
MaxValueLen == 3

\* key values: letters, the separator and blanks
KeyValues == StringsOver({"a", "b", ",", " "}, MaxValueLen)

\* the key values of a second record: no blanks
PlainKeyValues == StringsOver({"a", "b", ","}, MaxValueLen)

\* a record with the key field absent, and one record per key value
ItemsWith(i, values) == { [id |-> i] } \cup { [id |-> i, code |-> v] : v \in values }

\* lists of no, one and two records
ItemLists ==
    { << >> }
    \cup { <<a>> : a \in ItemsWith(1, KeyValues) }
    \cup { <<a, b>> : a \in ItemsWith(1, KeyValues), b \in ItemsWith(2, PlainKeyValues) }

\* no separator, and the comma
Separators == { << >>, <<",">> }

\* dicts with each of three fields absent, falsy or truthy
FieldChoices ==
    [id |-> {0, 1}, code |-> {"", "a"}, tags |-> {<< >>, <<OtherTag>>}]

Dicts ==
    { Merge(Merge(i, c), t) :
        i \in {EmptyMap} \cup {[k \in {"id"} |-> v] : v \in FieldChoices.id},
        c \in {EmptyMap} \cup {[k \in {"code"} |-> v] : v \in FieldChoices.code},
        t \in {EmptyMap} \cup {[k \in {"tags"} |-> v] : v \in FieldChoices.tags} }

\* key lists: fields of the dict and one it never has
KeyLists == SUBSET {"id", "code", "type"}

\* the two modes and one that is neither
Modes == {"remove", "keep", "drop"}

RemoveKeys ==
    /\ last.op = "call"
    /\ last.fn = "remove_keys"
    /\ last' = Done(last.fn, last.args,
                    remove_keys_call(last.args.data, last.args.keys, last.args.mode,
                                     last.args.remove_empty, last.args.update_in_place))
    /\ UNCHANGED <<data, snapshot_data, chain, remote, load, up, lookup_cache>>

DictDiff ==
    /\ last.op = "call"
    /\ last.fn = "dict_diff"
    /\ last' = Done(last.fn, last.args,
                    dict_diff_call(last.args.original, last.args.updated))
    /\ UNCHANGED <<data, snapshot_data, chain, remote, load, up, lookup_cache>>

GetHighestVersion ==
    /\ last.op = "call"
    /\ last.fn = "get_highest_version"
    /\ last' = Done(last.fn, last.args, get_highest_version(last.args))
    /\ UNCHANGED <<data, snapshot_data, chain, remote, load, up, lookup_cache>>

ListOfDictsToDict ==
    /\ last.op = "call"
    /\ last.fn = "list_of_dicts_to_dict"
    /\ last' = Done(last.fn, last.args,
                    list_of_dicts_to_dict(last.args.items, last.args.key,
                                          last.args.separator))
    /\ UNCHANGED <<data, snapshot_data, chain, remote, load, up, lookup_cache>>

InitHelpers ==
    /\ \/ \E a \in VersionStringLists : last = Pending("get_highest_version", a)
       \/ \E items \in ItemLists, separator \in Separators :
             last = Pending("list_of_dicts_to_dict",
                            [items |-> items, key |-> "code", separator |-> separator])
       \/ \E d \in Dicts, keys \in KeyLists, mode \in Modes,
             remove_empty \in BOOLEAN, update_in_place \in BOOLEAN :
             last = Pending("remove_keys",
                            [data |-> d, keys |-> keys, mode |-> mode,
                             remove_empty |-> remove_empty,
                             update_in_place |-> update_in_place])
       \/ \E original \in Dicts, updated \in Dicts :
             last = Pending("dict_diff", [original |-> original, updated |-> updated])
    /\ data = EmptyMap
    /\ snapshot_data = NoSnapshot
    /\ chain = << >>
    /\ remote = << >>
    /\ load = NoLoad
    /\ up = NoUpload
    /\ lookup_cache = EmptyMap

NextHelpers == GetHighestVersion \/ ListOfDictsToDict \/ RemoveKeys \/ DictDiff

SpecHelpers == InitHelpers /\ [][NextHelpers]_vars

\* ======================================================== child accessors
\* get_tasks, get_versions, get_lastest_version_number (base.py), get_steps
\* (project.py) and get_projects (shotgrid.py): one remote find each, inside
\* try / except socket.gaierror.
\* Version rows the remote service comes to hold
MaxVersions == 4

\* base.py:210  limit=3
QueryLimit == 3

\* a link field holds the type and id of the entity linked to
Link(d) == [type |-> d["type"], id |-> d["id"]]

TheShot == [type |-> "Shot", id |-> 1]

TheStep == [type |-> "Step", id |-> 3, short_name |-> "cmp"]

TheTask == [type |-> "Task", id |-> 2, content |-> "comp",
            entity |-> Link(TheShot), step |-> Link(TheStep)]

TheProject == [type |-> "Project", id |-> 1, name |-> "p"]

\* the Task, Step and Project rows of the remote service
RemoteTasks == <<TheTask>>

RemoteSteps == <<TheStep>>

RemoteProjects == <<TheProject>>

\* the codes a Version row may carry
VersionCodes == { <<"x">>, <<"v", "1">>, <<"v", "2">> }

\* a Version of the shot; every other one is made under the task
VersionRow(i, code) ==
    Merge([type |-> "Version", id |-> i, code |-> code, entity |-> Link(TheShot)],
          IF i % 2 = 1 THEN [sg_task |-> Link(TheTask)] ELSE EmptyMap)

\* [field, "is", entity]: the row's link field points at the entity
LinkIs(row, field, d) == Has(row, field) /\ row[field] = Link(d)

\* ["sg_task.Task.step", "is", step]: the row's task is of the step
TaskStepIs(row, d) ==
    /\ Has(row, "sg_task")
    /\ \E i \in DOMAIN RemoteTasks :
          Link(RemoteTasks[i]) = row["sg_task"] /\ RemoteTasks[i]["step"] = Link(d)

\* [field, "is", value] for an optional value: << >> adds no clause
ValueIs(row, field, value) ==
    value = << >> \/ (Has(row, field) /\ row[field] = value[1])

\* order=[created_at desc]: the newest row first
RECURSIVE Reversed(_)
Reversed(rows) == IF rows = << >> THEN << >> ELSE Reversed(Tail(rows)) \o <<Head(rows)>>

\* limit=n
Limited(rows, n) == SubSeq(rows, 1, IF Len(rows) < n THEN Len(rows) ELSE n)

\* the attributes an instance of socket.gaierror (an OSError) has
GaierrorAttributes == {"args", "errno", "strerror", "filename", "filename2"}

\* base.py:187-189  except socket.gaierror as err: log.error(err.message);
\* raise -- the read of err.message comes first, and an attribute the
\* exception does not have makes the handler itself raise AttributeError
GaierrorHandler ==
    IF "message" \in GaierrorAttributes
    THEN [outcome |-> "gaierror", logged |-> TRUE]
    ELSE [outcome |-> "AttributeError", logged |-> FALSE]

QueryDid(op, args, net, outcome, logged, ret) ==
    [op |-> op, args |-> args, net |-> net, outcome |-> outcome, finds |-> 1,
     logged |-> logged, ret |-> ret]

\* one accessor: its find either fails with socket.gaierror or returns rows;
\* result is what the accessor makes of the rows
Query(op, args, result) ==
    { QueryDid(op, args, "gaierror", GaierrorHandler.outcome, GaierrorHandler.logged, << >>),
      QueryDid(op, args, "ok", IF result.exc = "none" THEN "ok" ELSE result.exc,
               FALSE, result.value) }

\* base.py:155-189  get_tasks(content): proxies of the Task rows found
GetTasks ==
    /\ data["type"] \in {"Shot", "Step", "Task"}
    /\ \E content \in {<< >>, <<"comp">>} :
          LET hit(row) == /\ IF data["type"] = "Step"
                             THEN LinkIs(row, "step", data)
                             ELSE LinkIs(row, "entity", data)
                          /\ ValueIs(row, "content", content)
          IN  last' \in Query("get_tasks", content, Returns(SelectSeq(RemoteTasks, hit)))
    /\ UNCHANGED <<data, snapshot_data, chain, remote, load, up, lookup_cache>>

\* base.py:221-255  get_versions(code): proxies of the Version rows found
GetVersions ==
    /\ data["type"] \in {"Shot", "Step", "Task"}
    /\ \E code \in {<< >>, << <<"v", "1">> >>} :
          LET hit(row) == /\ IF data["type"] = "Step"
                             THEN TaskStepIs(row, data)
                             ELSE LinkIs(row, "entity", data)
                          /\ ValueIs(row, "code", code)
          IN  last' \in Query("get_versions", code, Returns(SelectSeq(remote, hit)))
    /\ UNCHANGED <<data, snapshot_data, chain, remote, load, up, lookup_cache>>

\* base.py:203-216  what get_lastest_version_number makes of the rows found
LastestVersionNumber(results) ==
    LET withCode == SelectSeq(results, LAMBDA r : Has(r, "code"))
        versions == [i \in DOMAIN withCode |-> withCode[i]["code"]]
    IN  IF versions = << >> THEN Returns(<<0>>)
        ELSE get_highest_version(versions)

\* the rows the find of base.py:208-211 returns: linked through sg_task for
\* a Task and through entity otherwise, newest first, three at most
LastestVersionRows ==
    LET hit(row) == IF data["type"] = "Task"
                    THEN LinkIs(row, "sg_task", data)
                    ELSE LinkIs(row, "entity", data)
    IN  Limited(Reversed(SelectSeq(remote, hit)), QueryLimit)

\* base.py:191-219
GetLastestVersionNumber ==
    /\ data["type"] \in {"Shot", "Step", "Task"}
    /\ last' \in Query("get_lastest_version_number", << >>,
                       LastestVersionNumber(LastestVersionRows))
    /\ UNCHANGED <<data, snapshot_data, chain, remote, load, up, lookup_cache>>

\* shotgrid.py:140-164  get_projects(name)
GetProjects ==
    /\ \E name \in {<< >>, <<"p">>, <<"q">>} :
          LET hit(row) == name = << >> \/ row["name"] = name[1]
          IN  last' \in Query("get_projects", name, Returns(SelectSeq(RemoteProjects, hit)))
    /\ UNCHANGED <<data, snapshot_data, chain, remote, load, up, lookup_cache>>

\* project.py:370-401  get_steps(short_name)
GetSteps ==
    /\ data["type"] = "Project"
    /\ \E short_name \in {<< >>, <<"cmp">>} :
          LET hit(row) == ValueIs(row, "short_name", short_name)
          IN  last' \in Query("get_steps", short_name, Returns(SelectSeq(RemoteSteps, hit)))
    /\ UNCHANGED <<data, snapshot_data, chain, remote, load, up, lookup_cache>>

\* another client publishes a Version of the shot
AddVersion ==
    /\ Len(remote) < MaxVersions
    /\ \E code \in VersionCodes : remote' = Append(remote, VersionRow(Len(remote) + 1, code))
    /\ last' = [op |-> "remote_edit"]
    /\ UNCHANGED <<data, snapshot_data, chain, load, up, lookup_cache>>

\* the entity the accessors are called on
QueryCallers == { TheShot, Restrict(TheTask, {"type", "id"}),
                  Restrict(TheStep, {"type", "id"}), Restrict(TheProject, {"type", "id"}) }

InitQuery ==
    /\ data \in QueryCallers
    /\ remote = << >>
    /\ last = Idle
    /\ snapshot_data = NoSnapshot
    /\ chain = <<"Shotgrid">>
    /\ load = NoLoad
    /\ up = NoUpload
    /\ lookup_cache = EmptyMap

NextQuery ==
    GetTasks \/ GetVersions \/ GetLastestVersionNumber \/ GetProjects \/ GetSteps
        \/ AddVersion

SpecQuery == InitQuery /\ [][NextQuery]_vars

\* ====================================================== Shotgrid.get_lookup
\* A call is the arguments as written at the call site: the positional ones
\* after self, and the keyword ones. functools.lru_cache (shotgrid.py:210)
\* keys its memo on exactly that, so the same values passed in another form
\* are another key.
LookupCalls ==
    { [args |-> <<"Group">>, kwargs |-> EmptyMap],
      [args |-> <<"Group", "code">>, kwargs |-> EmptyMap],
      [args |-> <<"Group", "code">>, kwargs |-> [separator |-> ","]] }

\* shotgrid.py:211  the parameters bound from a call, defaults filled in;
\* fields and separator are << >> for None
LookupParams(call) ==
    [entity_type |-> call.args[1],
     key_field |-> IF Len(call.args) >= 2 THEN call.args[2]
                   ELSE IF Has(call.kwargs, "key_field") THEN call.kwargs["key_field"]
                   ELSE "code",
     fields |-> IF Has(call.kwargs, "fields") THEN call.kwargs["fields"] ELSE << >>,
     separator |-> IF Has(call.kwargs, "separator") THEN <<call.kwargs["separator"]>>
                   ELSE << >>]

\* shotgrid.py:221-226  the fields asked for: the key field is always among them
LookupFields(params) ==
    LET given == {params.fields[i] : i \in DOMAIN params.fields}
    IN  given \cup {params.key_field}

\* find(entity_type, [[key_field, "is_not", ""]], fields): the rows of the
\* type whose key field holds something, each cut to the fields asked for
FindWithKey(etype, key_field, fields) ==
    LET hit(row) == /\ row["type"] = etype
                    /\ Has(row, key_field)
                    /\ row[key_field] # << >>
        rows == SelectSeq(remote, hit)
    IN  [i \in DOMAIN rows |-> Restrict(rows[i], fields \cup {"type", "id"})]

\* shotgrid.py:221-234  the body of get_lookup, run on a miss
get_lookup(call) ==
    LET params == LookupParams(call)
        items == FindWithKey(params.entity_type, params.key_field, LookupFields(params))
    IN  list_of_dicts_to_dict(items, params.key_field, params.separator)

\* faulty variant: no call is ever answered from the memo
CachedNever(call) == FALSE

\* shotgrid.py:210  lru_cache: a call whose arguments have a stored result
Cached(call) == Has(lookup_cache, call)

LookupDid(call, outcome, finds, ret) ==
    [op |-> "get_lookup", call |-> call, outcome |-> outcome, finds |-> finds, ret |-> ret]

\* shotgrid.py:210-234  one call: a hit returns the stored result; a miss
\* runs the body, and stores the result only when the body returns
GetLookup ==
    \E call \in LookupCalls :
        IF Cached(call)
        THEN /\ last' = LookupDid(call, "ok", 0, lookup_cache[call])
             /\ UNCHANGED <<data, snapshot_data, chain, remote, load, up, lookup_cache>>
        ELSE \E net \in {"ok", "gaierror"} :
                IF net = "gaierror"
                THEN /\ last' = LookupDid(call, "gaierror", 1, EmptyMap)
                     /\ UNCHANGED <<data, snapshot_data, chain, remote, load, up, lookup_cache>>
                ELSE LET out == get_lookup(call)
                     IN  IF out.exc # "none"
                         THEN /\ last' = LookupDid(call, out.exc, 1, EmptyMap)
                              /\ UNCHANGED <<data, snapshot_data, chain, remote, load, up,
                                             lookup_cache>>
                         ELSE /\ lookup_cache' = Merge(lookup_cache, [c \in {call} |-> out.value])
                              /\ last' = LookupDid(call, "ok", 1, out.value)
                              /\ UNCHANGED <<data, snapshot_data, chain, remote, load, up>>

\* the Group rows the remote service may hold, one state after another
Group(i, code) == [type |-> "Group", id |-> i, code |-> code]

RemoteGroups ==
    { << >>,
      <<Group(1, <<"a">>)>>,
      <<Group(1, <<"b">>)>>,
      <<Group(1, <<"a", ",", "b">>)>>,
      <<Group(1, <<"a">>), Group(2, <<"a">>)>>,
      <<Group(1, <<"a">>), Group(2, <<"b">>)>> }

\* other clients change the Group rows
GroupsChange ==
    /\ \E rows \in RemoteGroups \ {remote} : remote' = rows
    /\ last' = [op |-> "remote_edit"]
    /\ UNCHANGED <<data, snapshot_data, chain, load, up, lookup_cache>>

InitLookup ==
    /\ remote \in RemoteGroups
    /\ lookup_cache = EmptyMap
    /\ last = Idle
    /\ data = EmptyMap
    /\ snapshot_data = NoSnapshot
    /\ chain = << >>
    /\ load = NoLoad
    /\ up = NoUpload

NextLookup == GetLookup \/ GroupsChange

SpecLookup == InitLookup /\ [][NextLookup]_vars

\* ============================================================= Entity.tags
\* The values the property meets are Python values of several types; each
\* is a record that names its type in `py`. A tags list holds items.
\* longest 'tags' list tried
MaxTags == 2

PyInt(n) == [py |-> "int", v |-> n]

PyStr == [py |-> "str", v |-> 0]

\* an item of a 'tags' list that is a dict
PyDict(d) == [py |-> "dict", d |-> d]

\* {'type': 'Tag', 'id': n}
TagDict(n) == PyDict([type |-> "Tag", id |-> n])

PyList(items) == [py |-> "list", items |-> items]

PyNone == [py |-> "NoneType", items |-> << >>]

\* items a 'tags' list may hold: two tags, a tag without id, a record of
\* another type, and something that is no dict
TagItems ==
    { TagDict(1), TagDict(2), PyDict([type |-> "Tag"]),
      PyDict([type |-> "Shot", id |-> 1]), [py |-> "str", d |-> EmptyMap] }

\* what data['tags'] may hold: lists of items, None, and a dict
RawTags ==
    { PyList(items) : items \in UNION { [1..k -> TagItems] : k \in 0..MaxTags } }
    \cup { PyNone, [py |-> "dict", items |-> << >>] }

\* base.py:395-402  the items of the list that are well-formed tag records
TagWellFormed(tag_dict) ==
    /\ tag_dict.py = "dict"
    /\ Has(tag_dict.d, "type")
    /\ tag_dict.d["type"] = "Tag"
    /\ Has(tag_dict.d, "id")

\* base.py:389-405  the getter: the ids as they come, nothing is left out
\* for having been met before
tags(d) ==
    LET current_sg_tags_list == IF Has(d, "tags") THEN d["tags"] ELSE PyNone
    IN  IF current_sg_tags_list.py # "list" THEN << >>
        ELSE LET found == SelectSeq(current_sg_tags_list.items, TagWellFormed)
             IN  [i \in DOMAIN found |-> found[i].d["id"]]

\* values assigned to the property: sets of ints, sets with a string among
\* them, and values that are no set
TagValues ==
    { [py |-> "set", items |-> S] : S \in SUBSET {PyInt(1), PyInt(2), PyStr} }
    \cup { [py |-> "list", items |-> {PyInt(1)}],
           [py |-> "NoneType", items |-> {}],
           [py |-> "int", items |-> {}] }

\* faulty variant: the items of a set are not looked at
TagsSetRejectsNoItem(value) == value.py # "set"

\* base.py:413-417  the two checks of the setter
TagsSetRejects(value) ==
    \/ value.py # "set"
    \/ value.items # {} /\ \E item \in value.items : item.py # "int"

\* the orders in which a set may be iterated
Orderings(S) ==
    { order \in [1..Cardinality(S) -> S] :
        \A i, j \in 1..Cardinality(S) : i # j => order[i] # order[j] }

\* faulty variant: the first element of the set is left out
TagsWireDropsFirst(order) == PyList([i \in 1..(Len(order) - 1) |-> TagDict(order[i + 1].v)])

\* base.py:419  [{'type': 'Tag', 'id': tag_id} for tag_id in value]
TagsWire(order) == PyList([i \in DOMAIN order |-> TagDict(order[i].v)])

TagsDid(op, value, outcome, ret) ==
    [op |-> op, value |-> value, outcome |-> outcome, ret |-> ret]

\* base.py:407-419  entity.tags = value
TagsSet ==
    \E value \in TagValues :
        IF TagsSetRejects(value)
        THEN /\ last' = TagsDid("tags_set", value, "TypeError", << >>)
             /\ UNCHANGED <<data, snapshot_data, chain, remote, load, up, lookup_cache>>
        ELSE \E order \in Orderings(value.items) :
                /\ data' = Merge(data, [k \in {"tags"} |-> TagsWire(order)])
                /\ last' = TagsDid("tags_set", value, "ok", << >>)
                /\ UNCHANGED <<snapshot_data, chain, remote, load, up, lookup_cache>>

\* base.py:389-405  entity.tags
TagsGet ==
    /\ last' = TagsDid("tags_get", PyNone, "ok", tags(data))
    /\ UNCHANGED <<data, snapshot_data, chain, remote, load, up, lookup_cache>>

InitTags ==
    /\ data \in {EmptyMap} \cup { [k \in {"tags"} |-> raw] : raw \in RawTags }
    /\ last = Idle
    /\ snapshot_data = NoSnapshot
    /\ chain = <<"Shotgrid">>
    /\ remote = << >>
    /\ load = NoLoad
    /\ up = NoUpload
    /\ lookup_cache = EmptyMap

NextTags == TagsSet \/ TagsGet

SpecTags == InitTags /\ [][NextTags]_vars

\* ================================================= filters of the accessors
\* The filter list an accessor hands to the remote query. A clause is
\* [field, 'is', value]; its value is the proxy's data, a string or an int.
FilterStr(s) == [py |-> "str", s |-> s, n |-> 0]

FilterInt(n) == [py |-> "int", s |-> "", n |-> n]

\* self.data as the value of a linkage clause
SelfData == [py |-> "dict", s |-> "self.data", n |-> 0]

\* an optional argument left at its default None
NotGiven == [py |-> "NoneType", s |-> "", n |-> 0]

Clause(field, value) == [field |-> field, op |-> "is", value |-> value]

\* 'if code:'
Truthy(value) == value.py = "str" /\ value.s # ""

\* 'if filters is not None: params.extend(filters)'
Extended(params, filters) ==
    IF filters.py = "list" THEN params \o filters.items ELSE params

\* base.py:155-178  the params get_tasks hands to find
get_tasks_params(self_type, content, filters) ==
    LET params == IF self_type = "Step"
                  THEN <<Clause("step", SelfData)>>
                  ELSE <<Clause("entity", SelfData)>>
        withContent == IF content # NotGiven
                       THEN Append(params, Clause("content", content))
                       ELSE params
    IN  Returns(PyList(Extended(withContent, filters)))

\* base.py:221-244  the params get_versions hands to find
get_versions_params(self_type, code, filters) ==
    LET params == IF self_type = "Step"
                  THEN <<Clause("sg_task.Task.step", SelfData)>>
                  ELSE <<Clause("entity", SelfData)>>
        withCode == IF Truthy(code) THEN Append(params, Clause("code", code))
                    ELSE params
    IN  Returns(PyList(Extended(withCode, filters)))

\* base.py:280-298  the filters _get_entities hands to find_entities; with
\* filters None the first append fails
get_entities_filters(code, entity_id, filters) ==
    IF filters.py # "list" /\ (code # NotGiven \/ entity_id # NotGiven)
    THEN Raises("AttributeError")
    ELSE IF filters.py # "list" THEN Returns(filters)
    ELSE LET withCode == IF code # NotGiven
                         THEN Append(filters.items, Clause("code", code))
                         ELSE filters.items
             withId == IF entity_id # NotGiven
                       THEN Append(withCode, Clause("id", entity_id))
                       ELSE withCode
         IN  Returns(PyList(withId))

\* base.py:257-278  _get_published_files: its own params, then _get_entities
get_published_files_filters(code, entity_id, filters) ==
    LET params == IF Truthy(code) THEN <<Clause("code", code)>> ELSE << >>
    IN  get_entities_filters(code, entity_id, PyList(Extended(params, filters)))

\* version.py:81-87  Version.get_published_files
Version_get_published_files_filters(code, entity_id, filters) ==
    LET params == <<Clause("version", SelfData)>>
    IN  get_published_files_filters(code, entity_id, PyList(Extended(params, filters)))

\* project.py:347-357  Project.get_shots2: the linkage, then _get_entities
get_shots2_filters(code, entity_id) ==
    get_entities_filters(code, entity_id, PyList(<<Clause("project", SelfData)>>))

\* extra filters of the caller
ExtraClauses ==
    <<Clause("sg_status_list", FilterStr("rev")), Clause("sg_status_list", FilterStr("apr"))>>

ExtraFilters ==
    {PyNone} \cup { PyList(SubSeq(ExtraClauses, 1, k)) : k \in 0..Len(ExtraClauses) }

Codes == {NotGiven, FilterStr(""), FilterStr("x")}

Ids == {NotGiven, FilterInt(1)}

AccessorArgs(self_type, code, entity_id, filters) ==
    [self_type |-> self_type, code |-> code, id |-> entity_id, filters |-> filters]

FiltersGetTasks ==
    /\ last.op = "call"
    /\ last.fn = "get_tasks"
    /\ last' = Done(last.fn, last.args,
                    get_tasks_params(last.args.self_type, last.args.code, last.args.filters))
    /\ UNCHANGED <<data, snapshot_data, chain, remote, load, up, lookup_cache>>

FiltersGetVersions ==
    /\ last.op = "call"
    /\ last.fn = "get_versions"
    /\ last' = Done(last.fn, last.args,
                    get_versions_params(last.args.self_type, last.args.code, last.args.filters))
    /\ UNCHANGED <<data, snapshot_data, chain, remote, load, up, lookup_cache>>

FiltersGetPublishedFiles ==
    /\ last.op = "call"
    /\ last.fn = "_get_published_files"
    /\ last' = Done(last.fn, last.args,
                    get_published_files_filters(last.args.code, last.args.id, last.args.filters))
    /\ UNCHANGED <<data, snapshot_data, chain, remote, load, up, lookup_cache>>

FiltersVersionGetPublishedFiles ==
    /\ last.op = "call"
    /\ last.fn = "get_published_files"
    /\ last' = Done(last.fn, last.args,
                    Version_get_published_files_filters(last.args.code, last.args.id,
                                                        last.args.filters))
    /\ UNCHANGED <<data, snapshot_data, chain, remote, load, up, lookup_cache>>

FiltersGetEntities ==
    /\ last.op = "call"
    /\ last.fn = "_get_entities"
    /\ last' = Done(last.fn, last.args,
                    get_entities_filters(last.args.code, last.args.id, last.args.filters))
    /\ UNCHANGED <<data, snapshot_data, chain, remote, load, up, lookup_cache>>

FiltersGetShots2 ==
    /\ last.op = "call"
    /\ last.fn = "get_shots2"
    /\ last' = Done(last.fn, last.args, get_shots2_filters(last.args.code, last.args.id))
    /\ UNCHANGED <<data, snapshot_data, chain, remote, load, up, lookup_cache>>

InitFilters ==
    /\ \/ \E self_type \in {"Shot", "Step"}, content \in Codes, filters \in ExtraFilters :
             last = Pending("get_tasks", AccessorArgs(self_type, content, NotGiven, filters))
       \/ \E self_type \in {"Shot", "Step"}, code \in Codes, filters \in ExtraFilters :
             last = Pending("get_versions", AccessorArgs(self_type, code, NotGiven, filters))
       \/ \E code \in Codes, entity_id \in Ids, filters \in ExtraFilters :
             last = Pending("_get_published_files", AccessorArgs("Shot", code, entity_id, filters))
       \/ \E code \in Codes, entity_id \in Ids, filters \in ExtraFilters :
             last = Pending("get_published_files", AccessorArgs("Version", code, entity_id, filters))
       \/ \E code \in Codes, entity_id \in Ids, filters \in ExtraFilters :
             last = Pending("_get_entities", AccessorArgs("Project", code, entity_id, filters))
       \/ \E code \in Codes, entity_id \in Ids :
             last = Pending("get_shots2", AccessorArgs("Project", code, entity_id, PyNone))
    /\ data = EmptyMap
    /\ snapshot_data = NoSnapshot
    /\ chain = << >>
    /\ remote = << >>
    /\ load = NoLoad
    /\ up = NoUpload
    /\ lookup_cache = EmptyMap

NextFilters ==
    \/ FiltersGetTasks
    \/ FiltersGetVersions
    \/ FiltersGetPublishedFiles
    \/ FiltersVersionGetPublishedFiles
    \/ FiltersGetEntities
    \/ FiltersGetShots2

SpecFilters == InitFilters /\ [][NextFilters]_vars

\* ========================================================= the upward walk
\* A proxy and the chain of its parents: data["type"] is the type of the
\* proxy, chain the types of its parents from the nearest to the root. The
\* walks of api() and get_project() go one parent a step; `last` holds the
\* walk: the node looked at (0 the proxy, i the i-th parent, one past the
\* chain the None that the root gives as its parent) and the node returned.
\* longest chain of parents built
MaxDepth == 3

WalkKinds == {"Project", "Shot", "Task", "Version"}

\* the index that stands for None
NoneAt == Len(chain) + 1

\* type() of the node at an index
NodeType(index) ==
    IF index = 0 THEN data["type"]
    ELSE IF index <= Len(chain) THEN chain[index]
    ELSE "NoneType"

Walk(fn, pc, parent, ret) ==
    [op |-> "walk", fn |-> fn, pc |-> pc, parent |-> parent, ret |-> ret]

WalkIdle == Walk("none", "done", 0, 0)

\* faulty variant: the first parent is returned whatever its type
ApiLoopReturnsFirstParent(w) ==
    IF w.parent = NoneAt THEN Walk(w.fn, "done", w.parent, NoneAt)
    ELSE Walk(w.fn, "done", w.parent, w.parent)

\* base.py:111-114  one turn of the loop of api()
ApiLoop(w) ==
    IF w.parent = NoneAt THEN Walk(w.fn, "done", w.parent, NoneAt)
    ELSE IF NodeType(w.parent) = "Shotgrid" THEN Walk(w.fn, "done", w.parent, w.parent)
    ELSE Walk(w.fn, "loop", w.parent + 1, w.ret)

\* base.py:149-152  one turn of the loop of get_project()
GetProjectLoop(w) ==
    IF w.parent = NoneAt THEN Walk(w.fn, "done", w.parent, NoneAt)
    ELSE IF NodeType(w.parent) = "Project" THEN Walk(w.fn, "done", w.parent, w.parent)
    ELSE Walk(w.fn, "loop", w.parent + 1, w.ret)

\* base.py:110  parent = self.parent()
WalkApiCall ==
    /\ last.pc = "done"
    /\ last' = Walk("api", "loop", 1, 0)
    /\ UNCHANGED <<data, snapshot_data, chain, remote, load, up, lookup_cache>>

\* base.py:148  parent = self
WalkGetProjectCall ==
    /\ last.pc = "done"
    /\ last' = Walk("get_project", "loop", 0, 0)
    /\ UNCHANGED <<data, snapshot_data, chain, remote, load, up, lookup_cache>>

WalkStep ==
    /\ last.pc = "loop"
    /\ last' = IF last.fn = "api" THEN ApiLoop(last) ELSE GetProjectLoop(last)
    /\ UNCHANGED <<data, snapshot_data, chain, remote, load, up, lookup_cache>>

\* shotgrid.py:137  find_entities: a proxy of any kind whose parent is the
\* client
WalkFindEntities ==
    /\ last.pc = "done"
    /\ \E kind \in WalkKinds : data' = [type |-> kind, id |-> 1]
    /\ chain' = <<"Shotgrid">>
    /\ last' = WalkIdle
    /\ UNCHANGED <<snapshot_data, remote, load, up, lookup_cache>>

\* base.py:184, 250; project.py:341  an accessor of the proxy: a child
\* whose parent is the proxy
WalkChild ==
    /\ last.pc = "done"
    /\ Len(chain) < MaxDepth
    /\ \E kind \in IF data["type"] = "Project" THEN {"Shot", "Task", "Version"}
                   ELSE {"Task", "Version"} :
          data' = [type |-> kind, id |-> 1]
    /\ chain' = <<data["type"]>> \o chain
    /\ last' = WalkIdle
    /\ UNCHANGED <<snapshot_data, remote, load, up, lookup_cache>>

\* shotgrid.py:159  get_projects: a Project whose parent is the client
InitWalk ==
    /\ data = [type |-> "Project", id |-> 1]
    /\ chain = <<"Shotgrid">>
    /\ last = WalkIdle
    /\ snapshot_data = NoSnapshot
    /\ remote = << >>
    /\ load = NoLoad
    /\ up = NoUpload
    /\ lookup_cache = EmptyMap

NextWalk ==
    \/ WalkApiCall
    \/ WalkGetProjectCall
    \/ WalkStep
    \/ WalkFindEntities
    \/ WalkChild

\* a walk once called runs on: the call is one thread of control
SpecWalk == InitWalk /\ [][NextWalk]_vars /\ WF_vars(WalkStep)

\* ================================================= the type a call names
\* The entity type string with which each operation of a proxy addresses
\* the remote record. A proxy is of a class; the class may declare its
\* entity_type.
EntityClass(class, declared) == [class |-> class, declared |-> declared]

\* the Entity classes of the package; "" where the class declares no
\* entity_type
EntityClasses ==
    { EntityClass("Project", "Project"), EntityClass("PublishedFile", "PublishedFile"),
      EntityClass("Step", "Step"), EntityClass("Version", "Version"),
      EntityClass("YMedia", "CustomEntity06"), EntityClass("YPackage", "CustomEntity07"),
      EntityClass("Movie", "") }

\* base.py:69-70, 356-358  type(): the declared entity_type, the class name
\* where none is declared
proxy_type(proxy) ==
    IF proxy.cls.declared = "" THEN proxy.cls.class ELSE proxy.cls.declared

\* the record a remote call addresses
Addressed(method, ty, i) == [method |-> method, entity_type |-> ty, id |-> i]

\* base.py:140-143  delete(): the class name
delete_addresses(proxy) == Addressed("delete", proxy.cls.class, proxy.id)

\* base.py:382-384  update()
update_addresses(proxy) == Addressed("update", proxy_type(proxy), proxy.id)

\* base.py:352-353  refetch()
refetch_addresses(proxy) == Addressed("find", proxy_type(proxy), proxy.id)

\* base.py:360-362  undelete()
undelete_addresses(proxy) == Addressed("revive", proxy_type(proxy), proxy.id)

KindOperations == {"delete", "update", "refetch", "undelete", "type"}

KindDelete ==
    /\ last.op = "call"
    /\ last.fn = "delete"
    /\ last' = Done(last.fn, last.args, delete_addresses(last.args))
    /\ UNCHANGED <<data, snapshot_data, chain, remote, load, up, lookup_cache>>

KindUpdate ==
    /\ last.op = "call"
    /\ last.fn = "update"
    /\ last' = Done(last.fn, last.args, update_addresses(last.args))
    /\ UNCHANGED <<data, snapshot_data, chain, remote, load, up, lookup_cache>>

KindRefetch ==
    /\ last.op = "call"
    /\ last.fn = "refetch"
    /\ last' = Done(last.fn, last.args, refetch_addresses(last.args))
    /\ UNCHANGED <<data, snapshot_data, chain, remote, load, up, lookup_cache>>

KindUndelete ==
    /\ last.op = "call"
    /\ last.fn = "undelete"
    /\ last' = Done(last.fn, last.args, undelete_addresses(last.args))
    /\ UNCHANGED <<data, snapshot_data, chain, remote, load, up, lookup_cache>>

KindType ==
    /\ last.op = "call"
    /\ last.fn = "type"
    /\ last' = Done(last.fn, last.args, Addressed("none", proxy_type(last.args), last.args.id))
    /\ UNCHANGED <<data, snapshot_data, chain, remote, load, up, lookup_cache>>

InitKinds ==
    /\ \E fn \in KindOperations, cls \in EntityClasses, i \in 1..MaxId :
          last = Pending(fn, [cls |-> cls, id |-> i])
    /\ data = EmptyMap
    /\ snapshot_data = NoSnapshot
    /\ chain = <<"Shotgrid">>
    /\ remote = << >>
    /\ load = NoLoad
    /\ up = NoUpload
    /\ lookup_cache = EmptyMap

NextKinds == KindDelete \/ KindUpdate \/ KindRefetch \/ KindUndelete \/ KindType

SpecKinds == InitKinds /\ [][NextKinds]_vars

\* ================================================================ claims
\* C1: save() on a proxy whose id is populated raises ValueError and issues
\* no remote create; a save() that succeeded leaves the id populated, and
\* save, update and refetch never unpopulate it, so every further save()
\* is rejected.
C1_SaveRejectsPopulatedId ==
    [][ /\ (last'.op = "save" /\ Has(data, "id") /\ data["id"] # 0)
              => /\ last'.outcome = "ValueError"
                 /\ last'.calls = << >>
                 /\ data' = data
                 /\ remote' = remote
        /\ (last'.op = "save" /\ last'.outcome = "ok")
              => Has(data', "id") /\ data'["id"] # 0
        /\ (last'.op \in {"save", "update", "refetch"} /\ Has(data, "id") /\ data["id"] # 0)
              => Has(data', "id") /\ data'["id"] # 0
      ]_vars

\* a second save() was rejected on a proxy whose row an earlier save() created
C1_Witness ==
    /\ last.op = "save"
    /\ last.outcome = "ValueError"
    /\ id(data) \in DOMAIN remote
    /\ Has(remote[id(data)], "project")

\* C2: save() on a proxy without an id sends a field map with no id and no
\* type key, with project set to the enclosing Project's data and tags equal
\* to exactly the auto tag; afterwards the local data is the server's
\* response and nothing else.
C2_SaveSendsCleanData ==
    /\ [](last.op = "save" /\ last.calls # << >>
            => /\ Len(last.calls) = 1
               /\ last.calls[1].fn = "create"
               /\ last.calls[1].type = "Version"
               /\ ~Has(last.calls[1].data, "id")
               /\ ~Has(last.calls[1].data, "type")
               /\ Has(last.calls[1].data, "project")
               /\ last.calls[1].data["project"] = [type |-> "Project", id |-> 1]
               /\ Has(last.calls[1].data, "tags")
               /\ last.calls[1].data["tags"] = <<[type |-> "Tag", id |-> 341]>>
               /\ (last.outcome = "ok" => data = last.ret))
    /\ [][ (last'.op = "save" /\ ~(Has(data, "id") /\ data["id"] # 0)
                /\ \E n \in 1..Len(chain) : chain[n] = "Project")
              => /\ last'.calls # << >>
                 /\ \A k \in (DOMAIN data) \ {"id", "type", "tags", "project"} :
                        /\ Has(last'.calls[1].data, k)
                        /\ last'.calls[1].data[k] = data[k]
         ]_vars

\* a save() succeeded on a proxy that held a type key and other tags locally
C2_Witness ==
    /\ last.op = "save"
    /\ last.outcome = "ok"
    /\ "tags" \in last.lost
    /\ data = last.ret
    /\ data["tags"] = <<auto_tag>>

\* C3: update(**fields) with at least one field sends tags equal to exactly
\* the auto tag with update mode 'set' for tags, whatever tags and modes the
\* caller gave, never sends id or type, and afterwards the local data is the
\* previous local data overridden key by key with the echoed result.
C3_UpdateReassertsTag ==
    /\ [](last.op = "update" /\ last.args.fields # EmptyMap
            => /\ Len(last.calls) = 1
               /\ last.calls[1].fn = "update"
               /\ Has(last.calls[1].data, "tags")
               /\ last.calls[1].data["tags"] = <<[type |-> "Tag", id |-> 341]>>
               /\ Has(last.calls[1].mode, "tags")
               /\ last.calls[1].mode["tags"] = "set"
               /\ \A k \in DOMAIN last.args.update_mode :
                      k # "tags" => /\ Has(last.calls[1].mode, k)
                                    /\ last.calls[1].mode[k] = last.args.update_mode[k]
               /\ ~Has(last.calls[1].data, "id")
               /\ ~Has(last.calls[1].data, "type"))
    /\ [][ (last'.op = "update" /\ last'.outcome = "ok")
              => /\ DOMAIN data' = (DOMAIN data) \cup (DOMAIN last'.ret)
                 /\ \A k \in DOMAIN last'.ret : data'[k] = last'.ret[k]
                 /\ \A k \in (DOMAIN data) \ (DOMAIN last'.ret) : data'[k] = data[k]
         ]_vars

\* an update that passed its own tags and a tags mode went through, and a
\* key the server did not echo is still held locally
C3_Witness ==
    /\ last.op = "update"
    /\ last.outcome = "ok"
    /\ Has(last.args.fields, "tags")
    /\ last.args.fields["tags"] # <<auto_tag>>
    /\ last.args.update_mode = [tags |-> "add"]
    /\ Has(data, "project")
    /\ ~Has(last.ret, "project")

\* C4: when the remote create of save() or the remote update of update()
\* raises, the local data and the snapshot are what they were before.
C4_FailedCallLeavesLocalState ==
    [][ (last'.op \in {"save", "update"} /\ last'.outcome = "RemoteError")
           => /\ data' = data
              /\ snapshot_data' = snapshot_data
      ]_vars

\* a remote create failed on a proxy that holds a type key and a snapshot
C4_Witness ==
    /\ last.op = "save"
    /\ last.outcome = "RemoteError"
    /\ Len(last.calls) = 1
    /\ Has(data, "type")
    /\ snapshot_data # NoSnapshot

\* C5: refetch() queries by the proxy's own type and id and replaces the
\* local data wholesale with the first returned row: a key held locally is
\* gone when the row lacks it and has the row's value otherwise.
C5_RefetchReplacesData ==
    [][ (last'.op = "refetch" /\ last'.outcome = "ok")
           => /\ Len(last'.calls) = 1
              /\ last'.calls[1].fn = "find"
              /\ last'.calls[1].type = "Version"
              /\ Has(data, "id")
              /\ last'.calls[1].id = data["id"]
              /\ data["id"] \in DOMAIN remote
              /\ data' = last'.ret
              /\ (DOMAIN data') \subseteq (DOMAIN remote[data["id"]])
              /\ \A k \in DOMAIN data' : data'[k] = remote[data["id"]][k]
      ]_vars

\* a refetch dropped a key held locally and reverted a locally changed code
C5_Witness ==
    /\ last.op = "refetch"
    /\ last.outcome = "ok"
    /\ "code" \in last.lost
    /\ \E k \in last.lost : ~Has(data, k)

\* ------------------------------------------------------------ load_entity
\* the value the lookup goes by: 'code' when truthy, else the natural key
AskedCode == 
    IF Has(load.entity_data, "code") /\ load.entity_data["code"] # ""
    THEN load.entity_data["code"]
    ELSE IF load.entity_data["type"] = "Task" /\ Has(load.entity_data, "content")
    THEN load.entity_data["content"]
    ELSE ""

\* the natural key field of the asked type
AskedKey == IF load.entity_data["type"] = "Task" THEN "content" ELSE "code"

\* the positions of the remote rows of the asked type whose key is the asked value
Matches ==
    {n \in 1..Len(remote) :
        /\ remote[n]["type"] = load.entity_data["type"]
        /\ remote[n][AskedKey] = AskedCode}

\* a lookup by key went to the remote service: supported type, no id, a key
AskedByKey ==
    /\ load.op = "load_entity"
    /\ Has(load.entity_data, "type")
    /\ load.entity_data["type"] \in {"Shot", "Task", "Project"}
    /\ ~(Has(load.entity_data, "id") /\ load.entity_data["id"] # 0)
    /\ AskedCode # ""

\* C6: without an id, when the accessor returns more than one record,
\* retrieval=UNIQUE raises ValueError and returns none of them, FIRST returns
\* the first match and ALL returns the whole list.
C6_RetrievalPolicy ==
    (AskedByKey /\ Cardinality(Matches) > 1)
        => /\ load.retrieval = "unique"
                => load.out.outcome = "ValueError" /\ load.out.items = << >>
           /\ load.retrieval = "first"
                => /\ load.out.outcome = "return"
                   /\ load.out.kind = "entity"
                   /\ \E n \in Matches :
                         /\ load.out.items[1].data = remote[n]
                         /\ \A k \in Matches : n <= k
           /\ load.retrieval = "all"
                => /\ load.out.outcome = "return"
                   /\ load.out.kind = "list"
                   /\ Len(load.out.items) = Cardinality(Matches)
                   /\ \A n \in Matches :
                         \E j \in 1..Len(load.out.items) : load.out.items[j].data = remote[n]

\* a UNIQUE lookup met two Tasks with the asked content and raised
C6_Witness ==
    /\ AskedByKey
    /\ load.entity_data["type"] = "Task"
    /\ Cardinality(Matches) = 2
    /\ load.retrieval = "unique"
    /\ load.out.outcome = "ValueError"

\* C7: load_entity raises ValueError for every non-empty entity_data whose
\* type is not a supported entity type, with or without an id or a code key,
\* before any remote call.
C7_UnsupportedTypeRaisesValueError ==
    (/\ load.op = "load_entity"
     /\ load.entity_data # EmptyMap
     /\ ~(Has(load.entity_data, "type")
            /\ load.entity_data["type"] \in
                 {"Project", "Asset", "Sequence", "Shot", "Task", "Version",
                  "PublishedFile", "Playlist", "CustomEntity07", "CustomEntity06",
                  "Group", "Person"}))
        => load.out.outcome = "ValueError" /\ load.out.calls = << >>

\* C8 (as stated): a supported type with neither an id nor a value for the
\* type's natural key field yields None without raising, whatever the
\* policies, and no remote query.
C8_NoIdNoNaturalKeyReturnsNone ==
    (/\ load.op = "load_entity"
     /\ Has(load.entity_data, "type")
     /\ load.entity_data["type"] \in {"Shot", "Task", "Project"}
     /\ ~(Has(load.entity_data, "id") /\ load.entity_data["id"] # 0)
     /\ ~(Has(load.entity_data, AskedKey) /\ load.entity_data[AskedKey] # ""))
        => /\ load.out.outcome = "return"
           /\ load.out.kind = "None"
           /\ load.out.calls = << >>

\* C8 (amended): a supported type with neither an id, nor a truthy 'code', nor
\* a value for the type's natural key field yields None without raising,
\* whatever the policies, and no remote query.
C8_NoIdNoCodeReturnsNone ==
    (/\ load.op = "load_entity"
     /\ Has(load.entity_data, "type")
     /\ load.entity_data["type"] \in {"Shot", "Task", "Project"}
     /\ ~(Has(load.entity_data, "id") /\ load.entity_data["id"] # 0)
     /\ ~(Has(load.entity_data, "code") /\ load.entity_data["code"] # "")
     /\ ~(Has(load.entity_data, AskedKey) /\ load.entity_data[AskedKey] # ""))
        => /\ load.out.outcome = "return"
           /\ load.out.kind = "None"
           /\ load.out.calls = << >>

\* a Task asked for with an empty code and no content, under missing=RAISE,
\* came back as None
C8_Witness ==
    /\ load.op = "load_entity"
    /\ load.entity_data = [type |-> "Task", code |-> ""]
    /\ load.missing = "raise"
    /\ load.out.kind = "None"
    /\ Len(remote) > 0

\* C9: without an id, when the lookup finds no record or the caller has no
\* accessor for the type, CREATE returns a new proxy of the asked type,
\* parented to the caller, carrying the natural key, with no remote create;
\* IGNORE returns None; RAISE raises ValueError.
C9_MissingPolicy ==
    (AskedByKey /\ Matches = {})
        => /\ "create" \notin {load.out.calls[n] : n \in 1..Len(load.out.calls)}
           /\ load.missing = "create"
                => /\ load.out.outcome = "return"
                   /\ load.out.kind = "entity"
                   /\ load.out.items[1].cls = load.entity_data["type"]
                   /\ load.out.items[1].parent = "caller"
                   /\ Has(load.out.items[1].data, AskedKey)
                   /\ load.out.items[1].data[AskedKey] = AskedCode
                   /\ \A n \in 1..Len(remote) : remote[n] # load.out.items[1].data
           /\ load.missing = "ignore"
                => load.out.outcome = "return" /\ load.out.kind = "None"
           /\ load.missing = "raise"
                => load.out.outcome = "ValueError" /\ load.out.items = << >>

\* a Task looked up by a code no row has, under missing=CREATE, came back as a
\* new proxy keyed by content
C9_Witness ==
    /\ AskedByKey
    /\ load.entity_data = [type |-> "Task", code |-> "a"]
    /\ Matches = {}
    /\ Len(remote) > 0
    /\ load.missing = "create"
    /\ load.out.kind = "entity"
    /\ load.out.calls = <<"find">>
    /\ load.out.items[1].data = [type |-> "Task", content |-> "a"]

\* ----------------------------------------------------------- Movie.upload
\* C10: on an existing file whose target field is not populated, when every
\* remote upload attempt raises the vendor error, upload makes exactly 10
\* attempts and then returns False; the error never reaches the caller.
C10_UploadRetryBound ==
    /\ (up.pc = "loop" /\ up.allRaised) => up.attempts < 10
    /\ (up.pc = "done" /\ up.fileOk /\ up.checks = 1 /\ up.attempts > 0 /\ up.allRaised)
          => /\ up.attempts = 10
             /\ up.errors = 10
             /\ up.ret = FALSE
             /\ up.exc = "none"

\* ten attempts all raised and the call returned False
C10_Witness ==
    /\ up.pc = "done"
    /\ up.fileOk
    /\ up.allRaised
    /\ up.attempts = 10
    /\ up.ret = FALSE

\* C11: upload looks at the parent's 'sg_uploaded_movie' field before it
\* uploads: the check has been made once whenever an attempt has been made;
\* a call that finds the field populated returns False with no upload
\* attempt and the attachment still in place; and an attempt is only ever
\* made after a check that found the field empty.
C11_UploadChecksAttachmentFirst ==
    /\ [](up.attempts > 0 => up.checks = 1)
    /\ [][ /\ (up.pc = "idle" /\ up'.pc # "idle" /\ up'.fileOk /\ up.attached)
                  => /\ up'.pc = "done"
                     /\ up'.ret = FALSE
                     /\ up'.checks = 1
                     /\ up'.attempts = 0
                     /\ up'.attached
           /\ (up'.attempts > up.attempts)
                  => /\ up.checks = 1
                     /\ ~up.attached ]_vars

\* a call on a populated field has returned False without an upload attempt
C11_Witness ==
    /\ up.pc = "done"
    /\ up.fileOk
    /\ up.attached
    /\ up.checks = 1
    /\ up.attempts = 0
    /\ up.ret = FALSE

\* ------------------------------------------------------------- helpers.py
\* every number that follows a 'v' in the string
VersionsIn(s) ==
    { int(SubSeq(s, i + 1, DigitRunEnd(s, i + 1))) :
        i \in {j \in 1..(Len(s) - 1) : s[j] = "v" /\ IsDigit(s[j + 1])} }

VersionsInAll(strings) == UNION { VersionsIn(strings[i]) : i \in DOMAIN strings }

\* C14: for every list of strings get_highest_version returns the maximum
\* of the numbers that follow a 'v' in the strings, returns None when no
\* string holds one, and never raises.
C14_HighestVersionIsMaximum ==
    (last.op = "done" /\ last.fn = "get_highest_version")
        => LET found == VersionsInAll(last.args)
           IN  /\ last.out.exc = "none"
               /\ found = {} => last.out.value = << >>
               /\ found # {} => /\ last.out.value # << >>
                                /\ last.out.value[1] \in found
                                /\ \A n \in found : n <= last.out.value[1]

\* the keys a record stands for as the claim words them: the parts of its
\* key value, split on the separator when there is one; trimmed when
\* `trimmed` says so; the empty ones left out
ClaimedKeys(item, separator, trimmed) ==
    IF ~Has(item, "code") \/ item["code"] = << >> THEN << >>
    ELSE LET parts == IF separator # << >>
                      THEN split(item["code"], separator[1])
                      ELSE <<item["code"]>>
             cut == [i \in DOMAIN parts |-> IF trimmed THEN strip(parts[i]) ELSE parts[i]]
         IN  SelectSeq(cut, LAMBDA k : k # << >>)

\* the places (record, part) a key comes from
ClaimedPlaces(items, separator, trimNoSeparator, k) ==
    { <<i, j>> \in (DOMAIN items) \X (1..(MaxValueLen + 2)) :
        LET ks == ClaimedKeys(items[i], separator, separator # << >> \/ trimNoSeparator)
        IN  j \in DOMAIN ks /\ ks[j] = k }

ClaimedAllKeys(items, separator, trimNoSeparator) ==
    UNION { LET ks == ClaimedKeys(items[i], separator, separator # << >> \/ trimNoSeparator)
            IN  {ks[j] : j \in DOMAIN ks} : i \in DOMAIN items }

\* the statement of C16, with the trimming of an unsplit value as a choice
ClaimedFolding(trimNoSeparator) ==
    (last.op = "done" /\ last.fn = "list_of_dicts_to_dict")
        => LET items == last.args.items
               separator == last.args.separator
               keys == ClaimedAllKeys(items, separator, trimNoSeparator)
               twice == {k \in keys :
                           Cardinality(ClaimedPlaces(items, separator, trimNoSeparator, k)) > 1}
           IN  IF twice # {}
               THEN /\ last.out.exc = "ValueError"
                    /\ Len(last.out.value) = Cardinality(twice)
                    /\ {last.out.value[i] : i \in DOMAIN last.out.value} = twice
                    /\ \A i \in 1..(Len(last.out.value) - 1) :
                          StrLess(last.out.value[i], last.out.value[i + 1])
               ELSE /\ last.out.exc = "none"
                    /\ DOMAIN last.out.value = keys
                    /\ \A k \in keys :
                          \E p \in ClaimedPlaces(items, separator, trimNoSeparator, k) :
                              last.out.value[k] = items[p[1]]

\* C16 as written: every non-empty, whitespace-trimmed part of a record's
\* key value (split on the separator when one is given) maps to the record,
\* records with an empty key value are skipped, and a key produced more than
\* once raises ValueError naming every duplicated key once, in sorted order.
C16_FoldTrimsEveryPart == ClaimedFolding(TRUE)

\* C16, amended: the parts are trimmed only when a separator is given; with
\* no separator the key is the record's key value as it stands. The rest of
\* the statement is unchanged.
C16_FoldTrimsSplitParts == ClaimedFolding(FALSE)

\* two records that share two keys after the split: both keys are named
C16_Witness ==
    /\ last.op = "done"
    /\ last.fn = "list_of_dicts_to_dict"
    /\ last.args.separator = <<",">>
    /\ Len(last.args.items) = 2
    /\ last.out.exc = "ValueError"
    /\ last.out.value = << <<"a">>, <<"b">> >>

\* C17: remove_keys in mode 'remove' returns exactly the entries whose key
\* is not listed, in mode 'keep' exactly those whose key is listed, with
\* remove_empty also without the entries whose value is falsy, the values
\* as they were; any other mode raises ValueError.
C17_RemoveKeysFilters ==
    (last.op = "done" /\ last.fn = "remove_keys")
        => LET a == last.args
               kept == {k \in DOMAIN a.data :
                          /\ a.mode = "remove" => k \notin a.keys
                          /\ a.mode = "keep" => k \in a.keys
                          /\ a.remove_empty => ~FalsyAt(a.data, k)}
           IN  IF a.mode \in {"remove", "keep"}
               THEN /\ last.out.exc = "none"
                    /\ last.out.value = [k \in kept |-> a.data[k]]
               ELSE last.out.exc = "ValueError"

\* C18: with update_in_place=False remove_keys leaves the caller's dict with
\* the entries it had, whatever the input, the key list, the mode and
\* remove_empty are, and the dict it returns is another object.
C18_RemoveKeysCopies ==
    (last.op = "done" /\ last.fn = "remove_keys" /\ ~last.args.update_in_place)
        => /\ last.out.caller = last.args.data
           /\ last.out.exc = "none" => ~last.out.same

\* a call that dropped entries from its result and none from the caller's dict
C18_Witness ==
    /\ last.op = "done"
    /\ last.fn = "remove_keys"
    /\ ~last.args.update_in_place
    /\ last.out.exc = "none"
    /\ last.out.value # last.args.data
    /\ last.out.value # EmptyMap
    /\ last.out.caller = last.args.data

\* C19: dict_diff(original, updated) returns exactly the entries of updated
\* whose key original lacks or holds with another value; a key that only
\* original holds never appears; a map diffed against itself gives the empty
\* map; and both arguments are as they were.
C19_DictDiffNewOrChanged ==
    (last.op = "done" /\ last.fn = "dict_diff")
        => LET original == last.args.original
               updated == last.args.updated
               result == last.out.value
           IN  /\ last.out.exc = "none"
               /\ \A k \in DOMAIN updated :
                     (k \notin DOMAIN original \/ original[k] # updated[k])
                         <=> (k \in DOMAIN result /\ result[k] = updated[k])
               /\ DOMAIN result \subseteq DOMAIN updated
               /\ original = updated => result = EmptyMap
               /\ last.out.original = original
               /\ last.out.updated = updated

\* one field unchanged and left out, one changed, one new, and one that
\* only the original holds
C19_Witness ==
    /\ last.op = "done"
    /\ last.fn = "dict_diff"
    /\ last.args.original = [id |-> 1, code |-> "a"]
    /\ last.args.updated = [code |-> "", tags |-> <<OtherTag>>]
    /\ last.out.value = [code |-> "", tags |-> <<OtherTag>>]

\* ---------------------------------------------------- Entity.snapshot/diff
\* C20: right after snapshot(), and as long as the data equals the snapshot,
\* has_changes() is False and diff() is empty; when a snapshot equal to the
\* data is followed by the assignment of another value to one top-level
\* field, or of a value to a field the data did not have, has_changes() is
\* True and diff() holds that field alone, with its new value.
C20_SnapshotThenOneChange ==
    /\ []((snapshot_data # NoSnapshot /\ snapshot_data[2] = data)
              => (diff = EmptyMap /\ ~has_changes))
    /\ [][ /\ (last'.op = "snapshot") => (diff' = EmptyMap /\ ~has_changes')
           /\ (/\ snapshot_data # NoSnapshot
               /\ snapshot_data[2] = data
               /\ last'.op = "set"
               /\ data' # data)
                  => /\ has_changes'
                     /\ diff' = [k \in {last'.args.key} |-> data'[last'.args.key]] ]_vars

\* a snapshot that held another code, and the set that made the difference
C20_Witness ==
    /\ snapshot_data # NoSnapshot
    /\ last.op = "set"
    /\ Has(snapshot_data[2], "code")
    /\ Has(snapshot_data[2], "id")
    /\ snapshot_data[2]["code"] = "a"
    /\ diff = [code |-> "b"]
    /\ has_changes

\* ---------------------------------------------------- Shotgrid.get_lookup
\* C13: once a call of get_lookup has returned, every later call with the
\* same arguments returns that first result and issues no remote find,
\* whatever has become of the remote rows; the stored result is never
\* replaced or dropped; a call whose arguments have no stored result issues
\* its own remote find.
C13_LookupMemoizedForever ==
    [][ /\ \A c \in DOMAIN lookup_cache :
              /\ c \in DOMAIN lookup_cache'
              /\ lookup_cache'[c] = lookup_cache[c]
        /\ (last'.op = "get_lookup" /\ last'.call \in DOMAIN lookup_cache)
              => /\ last'.outcome = "ok"
                 /\ last'.finds = 0
                 /\ last'.ret = lookup_cache[last'.call]
        /\ (last'.op = "get_lookup" /\ last'.call \notin DOMAIN lookup_cache)
              => /\ last'.finds = 1
                 /\ last'.outcome = "ok"
                       => /\ last'.ret = get_lookup(last'.call).value
                          /\ last'.call \in DOMAIN lookup_cache'
                          /\ lookup_cache'[last'.call] = last'.ret ]_vars

\* a call answered from the memo with a result the remote rows no longer give
C13_Witness ==
    /\ last.op = "get_lookup"
    /\ last.finds = 0
    /\ last.outcome = "ok"
    /\ get_lookup(last.call).exc = "none"
    /\ last.ret # get_lookup(last.call).value
    /\ last.ret # EmptyMap

\* -------------------------------------------------------- child accessors
\* C12: when the find of a child accessor fails with socket.gaierror, the
\* error is logged and the exception that reaches the caller is that
\* gaierror; the find is not tried again.
C12_GaierrorReachesCaller ==
    (/\ last.op \in {"get_tasks", "get_versions", "get_lastest_version_number",
                     "get_projects", "get_steps"}
     /\ last.net = "gaierror")
        => /\ last.outcome = "gaierror"
           /\ last.logged
           /\ last.finds = 1

\* C15: get_lastest_version_number returns the highest number that follows
\* a 'v' in the codes of the three newest versions linked to the entity
\* (through sg_task for a Task, through entity otherwise), and 0 when there
\* is none: no version found, or no code that holds a version.
C15_LastestVersionNumber ==
    (last.op = "get_lastest_version_number" /\ last.net = "ok")
        => LET field == IF data["type"] = "Task" THEN "sg_task" ELSE "entity"
               linked == SelectSeq(remote, LAMBDA row : LinkIs(row, field, data))
               newest == SubSeq(linked,
                                IF Len(linked) > 3 THEN Len(linked) - 2 ELSE 1,
                                Len(linked))
               found == VersionsInAll([i \in DOMAIN newest |-> newest[i]["code"]])
           IN  /\ last.outcome = "ok"
               /\ found = {} => last.ret = <<0>>
               /\ found # {} => /\ last.ret # << >>
                                /\ last.ret[1] \in found
                                /\ \A n \in found : n <= last.ret[1]

\* C21: on a proxy on which no snapshot has been taken, diff() and
\* has_changes() raise ValueError instead of returning a result.
C21_NoSnapshotRaises ==
    snapshot_data = NoSnapshot
        => /\ diff_call.exc = "ValueError"
           /\ has_changes_call.exc = "ValueError"

\* ------------------------------------------------------------ Entity.tags
\* the elements of a sequence in the order of their first appearance
RECURSIVE FirstAppearances(_, _)
FirstAppearances(seq, seen) ==
    IF seq = << >> THEN << >>
    ELSE IF Head(seq) \in seen THEN FirstAppearances(Tail(seq), seen)
    ELSE <<Head(seq)>> \o FirstAppearances(Tail(seq), seen \cup {Head(seq)})

\* C22: the tags getter returns the ids of the well-formed tag records of
\* the local 'tags' list in their original order, no id twice, and the
\* empty list when 'tags' is not a list.
C22_TagsGetterUnique ==
    (last.op = "tags_get")
        => LET current == IF Has(data, "tags") THEN data["tags"] ELSE PyNone
           IN  IF current.py # "list" THEN last.ret = << >>
               ELSE LET found == SelectSeq(current.items, TagWellFormed)
                        ids == [i \in DOMAIN found |-> found[i].d["id"]]
                    IN  /\ last.ret = FirstAppearances(ids, {})
                        /\ \A i, j \in DOMAIN last.ret : i # j => last.ret[i] # last.ret[j]

\* C23: a set S of integer ids assigned to tags is stored as one tag record
\* per element of S and no other, and the getter then yields exactly the
\* elements of S, each once.
C23_TagsRoundTrip ==
    (last.op = "tags_set" /\ last.outcome = "ok")
        => LET S == {item.v : item \in last.value.items}
               stored == data["tags"]
               read == tags(data)
           IN  /\ stored.py = "list"
               /\ Len(stored.items) = Cardinality(S)
               /\ {stored.items[i] : i \in DOMAIN stored.items} = {TagDict(n) : n \in S}
               /\ Len(read) = Cardinality(S)
               /\ {read[i] : i \in DOMAIN read} = S

\* the set {1, 2} was assigned and is read back
C23_Witness ==
    /\ last.op = "tags_set"
    /\ last.outcome = "ok"
    /\ last.value.items = {PyInt(1), PyInt(2)}
    /\ Len(tags(data)) = 2

\* C24: assigning a value that is no set, or a set with an item that is no
\* integer, raises TypeError and leaves the stored tags as they were.
C24_TagsSetterTypeError ==
    [][ (/\ last'.op = "tags_set"
         /\ \/ last'.value.py # "set"
            \/ \E item \in last'.value.items : item.py # "int")
            => /\ last'.outcome = "TypeError"
               /\ data' = data ]_vars

\* a set with a string in it was refused while tags were stored
C24_Witness ==
    /\ last.op = "tags_set"
    /\ last.outcome = "TypeError"
    /\ last.value.py = "set"
    /\ PyStr \in last.value.items
    /\ PyInt(1) \in last.value.items
    /\ Has(data, "tags")
    /\ data["tags"] = PyList(<<TagDict(2)>>)

\* ------------------------------------------------- filters of the accessors
\* how often a clause stands in a filter list
Occurrences(seq, clause) == Cardinality({i \in DOMAIN seq : seq[i] = clause})

\* the linkage clause of an accessor call, none for the two private ones
ClaimedLinkage(fn, self_type) ==
    IF fn = "get_tasks"
    THEN <<Clause(IF self_type = "Step" THEN "step" ELSE "entity", SelfData)>>
    ELSE IF fn = "get_versions"
    THEN <<Clause(IF self_type = "Step" THEN "sg_task.Task.step" ELSE "entity", SelfData)>>
    ELSE IF fn = "get_published_files" THEN <<Clause("version", SelfData)>>
    ELSE IF fn = "get_shots2" THEN <<Clause("project", SelfData)>>
    ELSE << >>

\* linkage, then one clause per given option, then the caller's extras
ClaimedFilters(fn, args) ==
    ClaimedLinkage(fn, args.self_type)
    \o (IF args.code # NotGiven
        THEN <<Clause(IF fn = "get_tasks" THEN "content" ELSE "code", args.code)>>
        ELSE << >>)
    \o (IF args.id # NotGiven THEN <<Clause("id", args.id)>> ELSE << >>)
    \o args.filters.items

\* C25: the filter list an accessor passes holds the linkage clause, one
\* clause per given code/content/id and the caller's extra filters, each
\* exactly once and no other clause (the order of the clauses and an empty
\* string as code are left aside).
C25_EachClauseOnce ==
    (/\ last.op = "done"
     /\ last.fn \in {"get_tasks", "get_versions", "_get_published_files",
                     "get_published_files", "_get_entities", "get_shots2"}
     /\ last.args.code # FilterStr("")
     /\ last.out.exc = "none")
        => LET passed == last.out.value.items
               claimed == ClaimedFilters(last.fn, last.args)
           IN  /\ Len(passed) = Len(claimed)
               /\ \A i \in DOMAIN claimed :
                     Occurrences(passed, claimed[i]) = Occurrences(claimed, claimed[i])

\* ------------------------------------------------ remove_keys in place
\* C26: with update_in_place=True remove_keys returns the caller's own dict
\* object, modified in place, for every input dict, the empty one included,
\* every mode the function knows and every key list.
C26_RemoveKeysInPlaceSameObject ==
    (/\ last.op = "done"
     /\ last.fn = "remove_keys"
     /\ last.args.update_in_place
     /\ last.args.mode \in {"keep", "remove"})
        => /\ last.out.exc = "none"
           /\ last.out.same
           /\ last.out.caller = last.out.value

\* ---------------------------------------------------------- the upward walk
\* the nodes of the chain, the proxy first, that are Projects
ProjectsAt == {i \in 0..Len(chain) : NodeType(i) = "Project"}

\* the root of the chain is the client, the only one in it, and the walk
\* past it meets None
RootIsClient ==
    /\ chain # << >>
    /\ NodeType(Len(chain)) = "Shotgrid"
    /\ \A i \in 0..(Len(chain) - 1) : NodeType(i) # "Shotgrid"
    /\ NodeType(NoneAt) = "NoneType"

WalkReturned ==
    /\ last.fn = "api" /\ last.pc = "done"
          => /\ last.ret = Len(chain)
             /\ NodeType(last.ret) = "Shotgrid"
             /\ api
    /\ last.fn = "get_project" /\ last.pc = "done"
          => IF ProjectsAt = {} THEN last.ret = NoneAt
             ELSE /\ last.ret \in ProjectsAt
                  /\ \A i \in ProjectsAt : last.ret <= i

\* C27: api() ends and returns the client at the root of the chain,
\* get_project() ends and returns the nearest Project, the proxy itself when
\* it is one, or None, and the root of every chain the accessors build is
\* the Shotgrid client, whose parent is None.
C27_UpwardWalk ==
    /\ [](RootIsClient /\ WalkReturned)
    /\ (last.pc = "loop") ~> (last.pc = "done")

\* get_project() on a Task two levels under a Project returned the Project
C27_Witness ==
    /\ last.fn = "get_project"
    /\ last.pc = "done"
    /\ data["type"] = "Task"
    /\ chain = <<"Shot", "Project", "Shotgrid">>
    /\ last.ret = 2

\* ---------------------------------------------------- the type a call names
\* C28: for a proxy of every kind, YMedia and YPackage included, delete()
\* addresses the remote record with the entity type string that type(),
\* update() and refetch() use, and with the id of the proxy.
C28_DeleteNamesEntityType ==
    (last.op = "done" /\ last.fn = "delete")
        => /\ last.out.entity_type = proxy_type(last.args)
           /\ last.out.entity_type = update_addresses(last.args).entity_type
           /\ last.out.entity_type = refetch_addresses(last.args).entity_type
           /\ last.out.id = last.args.id

\* ------------------------------------------------------------ Movie.upload
\* C29: upload stops at the first success. An attempt is only made inside
\* the loop and is at most the tenth; an attempt whose result is truthy ends
\* the call with True, any other is followed by a next round while fewer
\* than ten were made and by False after the tenth; a call that made
\* attempts returns True exactly when one of them came back truthy.
C29_UploadStopsAtFirstSuccess ==
    /\ [](/\ up.attempts <= RetryCount
          /\ (up.pc = "done" /\ up.attempts > 0) => (up.ret <=> up.attached)
          /\ (up.pc = "done" /\ up.ret) => up.attempts > 0)
    /\ [][ (up'.attempts > up.attempts)
              => /\ up.pc = "loop"
                 /\ up.attempts < RetryCount
                 /\ up'.attempts = up.attempts + 1
                 /\ IF up'.attached
                    THEN up'.pc = "done" /\ up'.ret
                    ELSE IF up'.attempts < RetryCount
                    THEN up'.pc = "loop"
                    ELSE up'.pc = "done" /\ ~up'.ret ]_vars

\* an error, a falsy result and then a truthy one: True after three attempts
C29_Witness ==
    /\ up.pc = "done"
    /\ up.ret
    /\ up.attempts = 3
    /\ up.errors = 1
    /\ up.attached

\* --------------------------------------------------------- Entity.snapshot
\* C30: a snapshot is a copy taken at one moment: snapshot() stores the
\* entries the data has then and leaves the data alone, and no later
\* assignment of a field, update(), refetch() or save() changes the entries
\* of the snapshot; only another snapshot() puts new ones in their place.
C30_SnapshotPointInTime ==
    [][ /\ (last'.op = "snapshot")
              => /\ snapshot_data' = <<TRUE, data>>
                 /\ data' = data
        /\ (last'.op \in {"set", "update", "refetch", "save", "remote_edit"})
              => snapshot_data' = snapshot_data
        /\ (snapshot_data' # snapshot_data) => last'.op = "snapshot" ]_vars

\* an update has changed the data after a snapshot, which still holds the
\* old code
C30_Witness ==
    /\ snapshot_data # NoSnapshot
    /\ last.op = "update"
    /\ last.outcome = "ok"
    /\ Has(snapshot_data[2], "code")
    /\ Has(data, "code")
    /\ snapshot_data[2]["code"] # data["code"]

====
